---- MODULE Spec2Model ----
(***************************************************************************)
(* A model of pytikz (src/tikz): the option model (options.py), the        *)
(* coordinate normaliser and the path operations (core.py), the Scope      *)
(* container (scope.py) and the Picture root with its build driver         *)
(* (picture.py).                                                           *)
(*                                                                         *)
(* Python strings are TLA+ strings; TLC evaluates Len, SubSeq, Head, Tail  *)
(* and \o on them, so text is built and inspected character by character  *)
(* exactly as the code does.  Python values whose type is inspected at run *)
(* time (None / str / list / bool / int ...) are records with a tag field  *)
(* t and one field per payload, all of one shape so that any two of them   *)
(* can be compared.                                                        *)
(***************************************************************************)
EXTENDS Integers, Sequences, FiniteSets, TLC

VARIABLES
    \* ---- options.py: one Opts object under test --------------------------
    o_self,          \* the Opts object: [made, options, kw_option, underscore_to_space]
    o_cache,         \* lru_cache of Opts.to_code for o_self: without_bracket -> [hit, out]
    o_ret,           \* what the last call on the option model returned
    \* ---- core.py: the normalisers under test -----------------------------
    n_in,            \* the value handed to _coordinate / _sequence
    n_out,           \* what the last call on it returned or raised
    \* ---- scope.py / picture.py: one Picture and the scopes below it ------
    scopes,          \* heap of Scope objects; scopes[1] is the Picture itself
    preamble,        \* Picture.preamble
    document_codes,  \* Picture.document_codes
    cache,           \* Picture.cache
    tempdir,         \* Picture.tempdir and how it came to be
    self_code,       \* Picture._code          ([set, s]; unset before the first _update)
    self_document_code, \* Picture._document_code
    temp_pdf,        \* Picture.temp_pdf       ([set, s])
    latex_completed, \* Picture.latex_completed
    files,           \* the files of the working directory: [name, content]
    ret,             \* outcome of the last public call on the Picture
    hist             \* history: what the claims need to remember of earlier calls

vars == << o_self, o_cache, o_ret, n_in, n_out, scopes, preamble, document_codes, cache,
           tempdir, self_code, self_document_code, temp_pdf, latex_completed,
           files, ret, hist >>

coVars == << n_in, n_out >>

\* what no call on a Picture or a Scope touches
optVars == << o_self, o_cache, o_ret, n_in, n_out >>

picVars == << scopes, preamble, document_codes, cache, tempdir, self_code,
              self_document_code, temp_pdf, latex_completed, files, ret, hist >>

(***************************************************************************)
(* Bounds of the model.                                                    *)
(***************************************************************************)
MaxFlags == 2        \* positional arguments of Opts(...)
MaxKw == 2           \* keyword arguments of Opts(...)
MaxElems == 3        \* elements held by all scopes together
MaxScopes == 2       \* Scope objects, the Picture included
MaxTexts == 1        \* elements added while building or assembling the document
MaxPreamble == 3     \* preamble-changing calls remembered in the history
MaxDocCodes == 1     \* add_document_code calls
MaxDim == 4          \* components of a tuple or array handed to _coordinate
MaxSeq == 2          \* coordinates of a list handed to _sequence

(***************************************************************************)
(* Text helpers: the str methods the code uses.                            *)
(***************************************************************************)
Char(s, i) == SubSeq(s, i, i)

StartsWith(s, p) == Len(s) >= Len(p) /\ SubSeq(s, 1, Len(p)) = p

EndsWith(s, p) == Len(s) >= Len(p) /\ SubSeq(s, Len(s) - Len(p) + 1, Len(s)) = p

\* sep.join(seq) for a sequence of strings
RECURSIVE Join(_, _)
Join(seq, sep) ==
    IF Len(seq) = 0 THEN ""
    ELSE IF Len(seq) = 1 THEN seq[1]
    ELSE seq[1] \o sep \o Join(Tail(seq), sep)

\* s.replace(a, b) for one-character a
RECURSIVE Replace(_, _, _)
Replace(s, a, b) ==
    IF Len(s) = 0 THEN ""
    ELSE (IF Char(s, 1) = a THEN b ELSE Char(s, 1)) \o Replace(Tail(s), a, b)

\* s.rstrip(c) for one-character c
RECURSIVE RStrip(_, _)
RStrip(s, c) ==
    IF Len(s) > 0 /\ Char(s, Len(s)) = c THEN RStrip(SubSeq(s, 1, Len(s) - 1), c)
    ELSE s

\* s.lstrip(): leading blanks removed
RECURSIVE LStrip(_)
LStrip(s) ==
    IF Len(s) > 0 /\ Char(s, 1) \in {" ", "\n", "\t"} THEN LStrip(Tail(s)) ELSE s

\* s.find(sub): 0-based index of the first occurrence, -1 when there is none
RECURSIVE FindFrom(_, _, _)
FindFrom(s, sub, i) ==
    IF i + Len(sub) - 1 > Len(s) THEN -1
    ELSE IF SubSeq(s, i, i + Len(sub) - 1) = sub THEN i - 1
    ELSE FindFrom(s, sub, i + 1)

Find(s, sub) == FindFrom(s, sub, 1)

\* s[k:] for k >= 0
From(s, k) == SubSeq(s, k + 1, Len(s))

\* s.split(sep) for one-character sep: the pieces between the separators
RECURSIVE SplitAcc(_, _, _, _)
SplitAcc(s, sep, cur, acc) ==
    IF Len(s) = 0 THEN Append(acc, cur)
    ELSE IF Char(s, 1) = sep THEN SplitAcc(Tail(s), sep, "", Append(acc, cur))
    ELSE SplitAcc(Tail(s), sep, cur \o Char(s, 1), acc)

Split(s, sep) == SplitAcc(s, sep, "", << >>)

LowerOf ==
    [c \in {"A", "B", "D", "F", "G", "M", "N", "P", "S", "V"} |->
        CASE c = "A" -> "a" [] c = "B" -> "b" [] c = "D" -> "d" [] c = "F" -> "f"
          [] c = "G" -> "g" [] c = "M" -> "m" [] c = "N" -> "n" [] c = "P" -> "p"
          [] c = "S" -> "s" [] c = "V" -> "v"]

\* s.lower()
RECURSIVE Lower(_)
Lower(s) ==
    IF Len(s) = 0 THEN ""
    ELSE (IF Char(s, 1) \in DOMAIN LowerOf THEN LowerOf[Char(s, 1)] ELSE Char(s, 1))
         \o Lower(Tail(s))

DigitChar(d) == SubSeq("0123456789", d + 1, d + 1)

\* str(n) for an int n
RECURSIVE NatStr(_)
NatStr(n) == IF n < 10 THEN DigitChar(n) ELSE NatStr(n \div 10) \o DigitChar(n % 10)

IntStr(n) == IF n < 0 THEN "-" \o NatStr(-n) ELSE NatStr(n)

(***************************************************************************)
(* Python values, tagged by type.                                          *)
(***************************************************************************)
PyNone == [t |-> "None", s |-> "", l |-> << >>]

PyStr(x) == [t |-> "str", s |-> x, l |-> << >>]

PyList(xs) == [t |-> "list", s |-> "", l |-> xs]

VBool(b) == [t |-> "bool", b |-> b, s |-> "", n |-> 0]

VStr(x) == [t |-> "str", b |-> FALSE, s |-> x, n |-> 0]

VInt(k) == [t |-> "int", b |-> FALSE, s |-> "", n |-> k]

\* str(val)
PyStrOf(val) ==
    CASE val.t = "bool" -> (IF val.b THEN "True" ELSE "False")
      [] val.t = "str" -> val.s
      [] val.t = "int" -> IntStr(val.n)

\* bool(val), as `if val:` takes it
Truthy(val) ==
    CASE val.t = "bool" -> val.b
      [] val.t = "str" -> Len(val.s) > 0
      [] val.t = "int" -> val.n # 0

\* `val is True`: the singleton True itself, not a value that equals it
IsTrue(val) == val.t = "bool" /\ val.b

SeqsUpTo(S, n) == UNION {[1..k -> S] : k \in 0..n}

(***************************************************************************)
(* options.py                                                              *)
(***************************************************************************)
\* Opts.__init__(*option, underscore_to_space=True, **kw_option)
Opts(option, u2s, kw_option) ==
    [made |-> TRUE, options |-> option, kw_option |-> kw_option,
     underscore_to_space |-> u2s]

NoOpts == [made |-> FALSE, options |-> << >>, kw_option |-> << >>,
           underscore_to_space |-> TRUE]

\* the mutant of _normalise_key_val that never omits the value
NormaliseKeyValKeepTrue(self, key, val) ==
    (IF self.underscore_to_space THEN Replace(key, "_", " ") ELSE key)
        \o "=" \o PyStrOf(val)

\* Opts._normalise_key_val
NormaliseKeyVal(self, key, val) ==
    LET k == IF self.underscore_to_space THEN Replace(key, "_", " ") ELSE key
        key_value_pair == IF ~IsTrue(val) THEN << k, PyStrOf(val) >> ELSE << k >>
    IN  Join(key_value_pair, "=")

\* Opts._nested_str_list_to_str
RECURSIVE NestedStrListToStr(_)
NestedStrListToStr(obj) ==
    IF obj.t = "None" THEN ""
    ELSE IF obj.t = "list"
         THEN Join([i \in 1..Len(obj.l) |-> NestedStrListToStr(obj.l[i])], ",")
    ELSE obj.s

\* the mutant of to_code that brackets an empty text too
ToCodeBracketEmpty(self, without_bracket) ==
    LET flags == NestedStrListToStr(PyList(self.options))
        pairs == Join([i \in 1..Len(self.kw_option) |->
                          NormaliseKeyVal(self, self.kw_option[i].k,
                                          self.kw_option[i].v)], ",")
    IN  IF ~without_bracket THEN "[" \o flags \o pairs \o "]" ELSE flags \o pairs

\* the body of Opts.to_code, before lru_cache
ToCode(self, without_bracket) ==
    LET flags == NestedStrListToStr(PyList(self.options))
        pairs == Join([i \in 1..Len(self.kw_option) |->
                          NormaliseKeyVal(self, self.kw_option[i].k,
                                          self.kw_option[i].v)], ",")
        out == flags \o pairs
    IN  IF ~without_bracket /\ Len(out) > 0 THEN "[" \o out \o "]" ELSE out

\* an OptsLike argument: an Opts, a dict, a str, or anything else (None, a list)
LikeOpts(o) == [t |-> "Opts", o |-> o, d |-> << >>, x |-> PyNone]

LikeDict(d) == [t |-> "dict", o |-> NoOpts, d |-> d, x |-> PyNone]

LikeOther(x) == [t |-> IF x.t = "str" THEN "str" ELSE "other", o |-> NoOpts,
                 d |-> << >>, x |-> x]

\* Opts(**opt): a key named like the keyword-only parameter binds to it
OptsFromDict(d) ==
    LET isFlag(i) == d[i].k = "underscore_to_space"
        flagIdx == {i \in 1..Len(d) : isFlag(i)}
        u2s == IF flagIdx = {} THEN TRUE ELSE Truthy(d[CHOOSE i \in flagIdx : TRUE].v)
    IN  Opts(<< >>, u2s, SelectSeq(d, LAMBDA e : e.k # "underscore_to_space"))

\* Opts.normalise
Normalise(opt) ==
    IF opt.t = "Opts" THEN opt.o
    ELSE IF opt.t = "dict" THEN OptsFromDict(opt.d)
    ELSE IF opt.t = "str" THEN Opts(<< PyList(<< opt.x >>) >>, TRUE, << >>)
    ELSE Opts(<< opt.x >>, TRUE, << >>)

\* ---- the inputs the option model is exercised on ------------------------
FlagItems == {PyNone, PyStr("thick"), PyList(<< PyStr("red"), PyStr("->") >>)}

KwItems ==
    {[k |-> "draw", v |-> VBool(TRUE)], [k |-> "draw", v |-> VBool(FALSE)],
     [k |-> "color", v |-> VStr("red")], [k |-> "line_width", v |-> VInt(1)],
     [k |-> "line_width", v |-> VStr("2pt")]}

\* keyword arguments / dict items: keys are unique, order is insertion order
KwSeqs(n) ==
    {d \in SeqsUpTo(KwItems, n) : \A i, j \in 1..Len(d) : i # j => d[i].k # d[j].k}

DictItems == KwItems \cup [k : {"underscore_to_space"}, v : {VBool(FALSE)}]

DictSeqs(n) ==
    {d \in SeqsUpTo(DictItems, n) : \A i, j \in 1..Len(d) : i # j => d[i].k # d[j].k}

EmptyCache == [wb \in BOOLEAN |-> [hit |-> FALSE, out |-> ""]]

NoOptRet == [op |-> "none", wb |-> FALSE, out |-> ""]

\* ---- actions ------------------------------------------------------------
\* o = Opts(*option, underscore_to_space=u2s, **kw)
OptsNew ==
    \E option \in SeqsUpTo(FlagItems, MaxFlags), kw \in KwSeqs(MaxKw), u2s \in BOOLEAN :
        /\ ~o_self.made
        /\ o_self' = Opts(option, u2s, kw)
        /\ o_cache' = EmptyCache
        /\ o_ret' = [op |-> "init", wb |-> FALSE, out |-> ""]
        /\ UNCHANGED << coVars, picVars >>

\* o = Opts.normalise(opt) for an opt that is not an Opts
OptsNormalise ==
    \E opt \in {LikeDict(d) : d \in DictSeqs(MaxKw)}
               \cup {LikeOther(x) : x \in FlagItems \cup {PyStr(""), PyList(<< >>)}} :
        /\ ~o_self.made
        /\ o_self' = Normalise(opt)
        /\ o_cache' = EmptyCache
        /\ o_ret' = [op |-> "normalise", wb |-> FALSE, out |-> ""]
        /\ UNCHANGED << coVars, picVars >>

\* o = Opts.normalise(o): an Opts is returned as it is, the same object
OptsNormaliseSelf ==
    /\ o_self.made
    /\ o_self' = Normalise(LikeOpts(o_self))
    /\ o_ret' = [op |-> "normalise", wb |-> FALSE, out |-> ""]
    /\ UNCHANGED << o_cache, coVars, picVars >>

\* o.to_code(without_bracket), through lru_cache
OptsToCode ==
    \E wb \in BOOLEAN :
        /\ o_self.made
        /\ LET out == IF o_cache[wb].hit THEN o_cache[wb].out ELSE ToCode(o_self, wb)
           IN  /\ o_cache' = [o_cache EXCEPT ![wb] = [hit |-> TRUE, out |-> out]]
               /\ o_ret' = [op |-> "to_code", wb |-> wb, out |-> out]
        /\ UNCHANGED << o_self, coVars, picVars >>

(***************************************************************************)
(* core.py: coordinates.  A number n stands for n / 10^6, so that the      *)
(* sixth decimal, which "{:.5f}" rounds away, is there to be rounded.      *)
(***************************************************************************)
NumC(n) == [t |-> "num", s |-> "", n |-> n]

StrC(x) == [t |-> "str", s |-> x, n |-> 0]

CoStr(x) == [t |-> "str", s |-> x, v |-> << >>]

CoTuple(v) == [t |-> "tuple", s |-> "", v |-> v]

\* a 1d-ndarray
CoArray(v) == [t |-> "ndarray", s |-> "", v |-> v]

\* a list, and a 2d-ndarray given by its rows
CoList(v) == [t |-> "list", s |-> "", v |-> v]

CoArray2(rows) == [t |-> "ndarray2", s |-> "", v |-> rows]

CoNone == [t |-> "None", s |-> "", v |-> << >>]

Whole(k) == NumC(k * 1000 * 1000)

\* _str, _numeric, _str_or_numeric on a component
IsStrC(x) == x.t = "str"

IsNumericC(x) == x.t = "num"

\* the result of a function that may raise TypeError
Ok(val) == [ok |-> TRUE, val |-> val, msg |-> "", bad |-> CoNone]

TypeError(msg) == [ok |-> FALSE, val |-> CoNone, msg |-> msg, bad |-> CoNone]

\* raise TypeError(f"{coord} is not a coordinate"): bad is the value it names
NotACoordinate(coord) == [TypeError("not a coordinate") EXCEPT !.bad = coord]

\* the mutant of _coordinate that joins a tuple of strings without parentheses
CoordinateNoParens(coord) ==
    IF coord.t = "tuple" /\ Len(coord.v) \in {2, 3}
       /\ \A i \in 1..Len(coord.v) : IsStrC(coord.v[i])
    THEN Ok(CoStr(Join([i \in 1..Len(coord.v) |-> coord.v[i].s], ",")))
    ELSE IF coord.t = "str"
            /\ (\/ /\ (StartsWith(coord.s, "(") \/ StartsWith(coord.s, "+(")
                       \/ StartsWith(coord.s, "++("))
                   /\ EndsWith(coord.s, ")")
                \/ coord.s = "cycle")
    THEN Ok(coord)
    ELSE IF coord.t \in {"tuple", "ndarray"} /\ Len(coord.v) \in {2, 3}
            /\ \A i \in 1..Len(coord.v) : IsNumericC(coord.v[i])
    THEN Ok(CoArray(coord.v))
    ELSE IF coord.t = "tuple" /\ Len(coord.v) \in {2, 3}
            /\ \A i \in 1..Len(coord.v) : IsStrC(coord.v[i]) \/ IsNumericC(coord.v[i])
    THEN Ok(coord)
    ELSE NotACoordinate(coord)

\* the mutant of _coordinate that leaves a tuple of numbers a tuple
CoordinateKeepsTuple(coord) ==
    IF coord.t = "str"
       /\ (\/ /\ (StartsWith(coord.s, "(") \/ StartsWith(coord.s, "+(")
                  \/ StartsWith(coord.s, "++("))
              /\ EndsWith(coord.s, ")")
           \/ coord.s = "cycle")
    THEN Ok(coord)
    ELSE IF coord.t = "tuple" /\ Len(coord.v) \in {2, 3}
            /\ \A i \in 1..Len(coord.v) : IsStrC(coord.v[i])
    THEN Ok(CoStr("(" \o Join([i \in 1..Len(coord.v) |-> coord.v[i].s], ",") \o ")"))
    ELSE IF coord.t \in {"tuple", "ndarray"} /\ Len(coord.v) \in {2, 3}
            /\ (coord.t = "ndarray" => \A i \in 1..Len(coord.v) : IsNumericC(coord.v[i]))
            /\ \A i \in 1..Len(coord.v) : IsStrC(coord.v[i]) \/ IsNumericC(coord.v[i])
    THEN Ok(coord)
    ELSE NotACoordinate(coord)

\* _coordinate
Coordinate(coord) ==
    IF coord.t = "str"
       /\ (\/ /\ (StartsWith(coord.s, "(") \/ StartsWith(coord.s, "+(")
                  \/ StartsWith(coord.s, "++("))
              /\ EndsWith(coord.s, ")")
           \/ coord.s = "cycle")
    THEN Ok(coord)
    ELSE IF coord.t = "tuple" /\ Len(coord.v) \in {2, 3}
            /\ \A i \in 1..Len(coord.v) : IsStrC(coord.v[i]) \/ IsNumericC(coord.v[i])
    THEN IF \A i \in 1..Len(coord.v) : IsStrC(coord.v[i])
         THEN Ok(CoStr("(" \o Join([i \in 1..Len(coord.v) |-> coord.v[i].s], ",") \o ")"))
         ELSE IF \A i \in 1..Len(coord.v) : IsNumericC(coord.v[i])
         THEN Ok(CoArray(coord.v))
         ELSE Ok(coord)
    ELSE IF coord.t = "ndarray" /\ Len(coord.v) \in {2, 3}
            /\ \A i \in 1..Len(coord.v) : IsNumericC(coord.v[i])
    THEN Ok(coord)
    ELSE NotACoordinate(coord)

\* what a call on the normalisers left: the call, whether it returned, the
\* value returned, the value a TypeError names, the result of the call before
\* and the text rendered
NoNorm == [op |-> "none", ok |-> FALSE, val |-> CoNone, bad |-> CoNone,
           first |-> CoNone, text |-> "", raised |-> ""]

\* the mutant of _sequence that keeps an element that is not a coordinate
SequenceUnchecked(seq) ==
    LET ofList(l) ==
            LET cs == [i \in 1..Len(l) |-> Coordinate(l[i])]
                vs == [i \in 1..Len(l) |-> IF cs[i].ok THEN cs[i].val ELSE l[i]]
            IN  IF /\ \A i \in 1..Len(l) : vs[i].t = "ndarray"
                   /\ \A i \in 1..Len(l) : Len(vs[i].v) = Len(vs[1].v)
                THEN Ok(IF Len(l) = 0 THEN CoArray(<< >>)
                        ELSE CoArray2([i \in 1..Len(l) |-> vs[i].v]))
                ELSE Ok(CoList(vs))
    IN  IF seq.t = "list" THEN ofList(seq.v)
        ELSE IF /\ seq.t = "ndarray2"
                /\ \A i \in 1..Len(seq.v) :
                      /\ Len(seq.v[i]) \in {2, 3}
                      /\ Len(seq.v[i]) = Len(seq.v[1])
                      /\ \A j \in 1..Len(seq.v[i]) : IsNumericC(seq.v[i][j])
        THEN Ok(seq)
        ELSE ofList(<< seq >>)

\* _sequence(seq, accept_coordinate=True), as every caller uses it
Sequence(seq) ==
    LET ofList(l) ==
            LET cs == [i \in 1..Len(l) |-> Coordinate(l[i])]
                vs == [i \in 1..Len(l) |-> cs[i].val]
                bad == {i \in 1..Len(l) : ~cs[i].ok}
            IN  IF bad # {} THEN cs[CHOOSE i \in bad : \A j \in bad : i <= j]
                ELSE IF /\ \A i \in 1..Len(l) : vs[i].t = "ndarray"
                        /\ \A i \in 1..Len(l) : Len(vs[i].v) = Len(vs[1].v)
                THEN Ok(IF Len(l) = 0 THEN CoArray(<< >>)
                        ELSE CoArray2([i \in 1..Len(l) |-> vs[i].v]))
                ELSE Ok(CoList(vs))
    IN  IF seq.t = "list" THEN ofList(seq.v)
        ELSE IF /\ seq.t = "ndarray2"
                /\ \A i \in 1..Len(seq.v) :
                      /\ Len(seq.v[i]) \in {2, 3}
                      /\ Len(seq.v[i]) = Len(seq.v[1])
                      /\ \A j \in 1..Len(seq.v[i]) : IsNumericC(seq.v[i][j])
        THEN Ok(seq)
        ELSE ofList(<< seq >>)

\* the coordinates a normalised sequence yields when iterated
Rows(seq) ==
    IF seq.t = "ndarray2" THEN [i \in 1..Len(seq.v) |-> CoArray(seq.v[i])]
    ELSE IF seq.t = "list" THEN seq.v
    ELSE << >>

\* "{:.5f}".format(x): round to 5 decimals (ties to even), sign, integer part,
\* point, five digits
Format5f(n) ==
    LET a == IF n < 0 THEN -n ELSE n
        d == a \div 10
        r == a % 10
        q == IF r > 5 \/ (r = 5 /\ d % 2 = 1) THEN d + 1 ELSE d
        frac == q % 100000
        pad == SubSeq("00000", 1, 5 - Len(NatStr(frac)))
    IN  (IF n < 0 THEN "-" ELSE "") \o NatStr(q \div 100000) \o "." \o pad \o NatStr(frac)

\* the mutant of _str_or_numeric_code that strips the zeros but not the point
StrOrNumericCodeKeepPoint(x) ==
    IF IsStrC(x) THEN x.s ELSE RStrip(Format5f(x.n), "0")

\* _str_or_numeric_code
StrOrNumericCode(x) ==
    IF IsStrC(x) THEN x.s ELSE RStrip(RStrip(Format5f(x.n), "0"), ".")

\* _coordinate_code(coord, trans=None)
CoordinateCode(coord) ==
    IF coord.t = "str" THEN coord.s
    ELSE "(" \o Join([i \in 1..Len(coord.v) |-> StrOrNumericCode(coord.v[i])], ",") \o ")"

(***************************************************************************)
(* core.py: Raw, the path operations and Action.  An element of a scope    *)
(* and an element of a path specification are records of one shape each.   *)
(***************************************************************************)
NoSeq == CoList(<< >>)

\* WithOptionsMixin.get_opt_code
GetOptCode(self) == ToCode(self.opt, FALSE)

\* Raw(string), as an element of a path specification
OpRaw(string) ==
    [t |-> "Raw", string |-> string, coords |-> NoSeq, op |-> "", opt |-> NoOpts,
     name |-> PyNone, contents |-> "", at |-> CoNone, headless |-> FALSE]

\* moveto / lineto / line, their coords already normalised
OpOf(kind, coords, op, opt) ==
    [t |-> kind, string |-> "", coords |-> coords, op |-> op, opt |-> Normalise(opt),
     name |-> PyNone, contents |-> "", at |-> CoNone, headless |-> FALSE]

\* node / coordinate, their `at` already normalised (CoNone: no `at`)
OpNode(kind, contents, name, at, headless, opt) ==
    [t |-> kind, string |-> "", coords |-> NoSeq, op |-> "", opt |-> Normalise(opt),
     name |-> name, contents |-> contents, at |-> at, headless |-> headless]

\* a path-specification argument as the caller writes it: an Operation to be
\* constructed (kind, coords, op), a str, or a bare coordinate / sequence
ArgOp(kind, coords, op) == [a |-> "op", kind |-> kind, coords |-> coords, op |-> op]

ArgStr(x) == [a |-> "str", kind |-> "", coords |-> CoStr(x), op |-> ""]

ArgCoords(coords) == [a |-> "coords", kind |-> "", coords |-> coords, op |-> ""]

\* moveto.__init__, lineto.__init__, line.__init__ (opt=None) and _operation:
\* the Operation object, or the TypeError of its coordinates
Operation(arg) ==
    IF arg.a = "str" THEN [ok |-> TRUE, val |-> OpRaw(arg.coords.s), bad |-> CoNone]
    ELSE LET sq == Sequence(arg.coords)
             kind == IF arg.a = "op" THEN arg.kind ELSE "moveto"
         IN  [ok |-> sq.ok, val |-> OpOf(kind, sq.val, arg.op, LikeOther(PyNone)),
              bad |-> sq.bad]

\* node.__init__ / coordinate.__init__ (opt=None): `at` is CoNone or a coordinate
NodeOperation(kind, contents, name, at, headless) ==
    LET c == IF at.t = "None" THEN Ok(CoNone) ELSE Coordinate(at)
    IN  [ok |-> c.ok,
         val |-> OpNode(kind, contents, name, c.val, headless, LikeOther(PyNone)),
         bad |-> c.bad]

\* the mutant of line._code that puts the operator before every coordinate
LineCodeLeading(self) ==
    Join([i \in 1..Len(Rows(self.coords)) |->
             self.op \o " " \o CoordinateCode(Rows(self.coords)[i])], " ")

\* line._code
LineCode(self) ==
    Join([i \in 1..Len(Rows(self.coords)) |-> CoordinateCode(Rows(self.coords)[i])],
         " " \o self.op \o " ")

\* moveto._code
MovetoCode(self) ==
    Join([i \in 1..Len(Rows(self.coords)) |-> CoordinateCode(Rows(self.coords)[i])], " ")

\* lineto._code
LinetoCode(self) ==
    self.op \o " "
    \o Join([i \in 1..Len(Rows(self.coords)) |-> CoordinateCode(Rows(self.coords)[i])],
            " " \o self.op \o " ")

\* node._code
NodeCode(self) ==
    LET code == (IF ~self.headless THEN "node" ELSE "")
                \o GetOptCode(self)
                \o (IF self.name.t # "None" THEN " (" \o self.name.s \o ")" ELSE "")
                \o (IF self.at.t # "None" THEN " at " \o CoordinateCode(self.at) ELSE "")
                \o " {" \o self.contents \o "}"
    IN  IF self.headless THEN LStrip(code) ELSE code

\* coordinate._code
CoordinateOpCode(self) ==
    LET code == (IF ~self.headless THEN "coordinate" ELSE "")
                \o GetOptCode(self)
                \o " (" \o self.name.s \o ")"
                \o (IF self.at.t # "None" THEN " at " \o CoordinateCode(self.at) ELSE "")
    IN  IF self.headless THEN LStrip(code) ELSE code

\* op._code() for an element of a path specification
OpCode(self) ==
    CASE self.t = "Raw" -> self.string
      [] self.t = "line" -> LineCode(self)
      [] self.t = "moveto" -> MovetoCode(self)
      [] self.t = "lineto" -> LinetoCode(self)
      [] self.t = "node" -> NodeCode(self)
      [] self.t = "coordinate" -> CoordinateOpCode(self)

\* the mutant of Action._code that always writes an option bracket
ActionCodeAlwaysBracket(self) ==
    "\\" \o self.action_name \o "[" \o ToCode(self.opt, TRUE) \o "]" \o " "
    \o Join([i \in 1..Len(self.spec) |-> OpCode(self.spec[i])], " ") \o ";"

\* Action._code
ActionCode(self) ==
    "\\" \o self.action_name \o GetOptCode(self) \o " "
    \o Join([i \in 1..Len(self.spec) |-> OpCode(self.spec[i])], " ") \o ";"

\* ---- the elements of a scope ---------------------------------------------
ElRaw(string) ==
    [t |-> "Raw", string |-> string, action_name |-> "", opt |-> NoOpts,
     spec |-> << >>, ref |-> 0]

\* Action.__init__(action_name, *spec, opt), spec already through _operation
ElAction(action_name, spec, opt) ==
    [t |-> "Action", string |-> "", action_name |-> action_name,
     opt |-> Normalise(opt), spec |-> spec, ref |-> 0]

\* a nested Scope is held by reference: ref is its place in the heap
ElScope(ref) ==
    [t |-> "Scope", string |-> "", action_name |-> "", opt |-> NoOpts,
     spec |-> << >>, ref |-> ref]

(***************************************************************************)
(* scope.py: the heap of scopes.  scs[id] = [opt, elements].               *)
(***************************************************************************)
\* Scope.__init__(opt)
NewScope(opt) == [opt |-> Normalise(opt), elements |-> << >>]

\* the mutant of el._code() that renders a nested scope as the copy taken when
\* Scope.scope made it, an empty block
ElCodeCopied(scs, el) ==
    CASE el.t = "Raw" -> el.string
      [] el.t = "Action" -> ActionCode(el)
      [] el.t = "Scope" -> "\\begin{scope}" \o GetOptCode(scs[el.ref]) \o "\n\n\\end{scope}"

RECURSIVE ScopeCode(_, _)
\* el._code() for an element of a scope
ElCode(scs, el) ==
    CASE el.t = "Raw" -> el.string
      [] el.t = "Action" -> ActionCode(el)
      [] el.t = "Scope" -> ScopeCode(scs, el.ref)

\* the mutant of Scope._code that renders the children last-in first
ScopeCodeReversed(scs, id) ==
    LET els == scs[id].elements
    IN  "\\begin{scope}" \o GetOptCode(scs[id]) \o "\n"
        \o Join([i \in 1..Len(els) |-> ElCode(scs, els[Len(els) + 1 - i])], "\n") \o "\n"
        \o "\\end{scope}"

\* Scope._code(trans=None)
ScopeCode(scs, id) ==
    LET els == scs[id].elements
    IN  "\\begin{scope}" \o GetOptCode(scs[id]) \o "\n"
        \o Join([i \in 1..Len(els) |-> ElCode(scs, els[i])], "\n") \o "\n"
        \o "\\end{scope}"

\* the mutant of Scope._append that puts the element in front
AppendElFront(scs, id, el) ==
    [scs EXCEPT ![id].elements = << el >> \o @]

\* Scope._append
AppendEl(scs, id, el) == [scs EXCEPT ![id].elements = Append(@, el)]

\* the elements held by all scopes together
RECURSIVE CountEls(_, _)
CountEls(scs, id) ==
    IF id > Len(scs) THEN 0 ELSE Len(scs[id].elements) + CountEls(scs, id + 1)

(***************************************************************************)
(* picture.py: the two texts _update computes.                             *)
(***************************************************************************)
\* _update, "create tikzpicture code"
PictureCode(scs) ==
    LET els == scs[1].elements
    IN  "\\begin{tikzpicture}" \o GetOptCode(scs[1]) \o "\n"
        \o Join([i \in 1..Len(els) |-> ElCode(scs, els[i])], "\n") \o "\n"
        \o "\\end{tikzpicture}"

\* _update, "create document code"
DocumentCodeOf(code, pre, docs) ==
    LET codelines ==
            << "\\documentclass{article}", "\\usepackage{tikz}",
               "\\usetikzlibrary{external}", "\\tikzexternalize" >>
            \o pre
            \o << "\\begin{document}", Join(docs, "\n"), code, "\\end{document}" >>
    IN  Join(codelines, "\n")

\* hashlib.sha1(code.encode()).hexdigest(): taken to be free of collisions,
\* the digest of a text is written as the text itself in a wrapper
Sha1(text) == "sha1<" \o text \o ">"

\* the mutant of add_preamble that appends without looking
AddPreambleAlways(pre, code) == Append(pre, code)

\* Picture.add_preamble
AddPreambleTo(pre, code) ==
    IF \A i \in 1..Len(pre) : pre[i] # code THEN Append(pre, code) ELSE pre

\* the text Picture.usetikzlibrary adds
UseTikzLibraryText(name) == "\\usetikzlibrary{" \o name \o "}"

\* the text Picture.usepackage adds; options is a PyNone or a PyStr
UsePackageText(name, options) ==
    "\\usepackage" \o (IF options.t # "None" THEN "[" \o options.s \o "]" ELSE "")
    \o "{" \o name \o "}"

\* the three texts Picture.fira adds, in its order
FiraTexts ==
    << UsePackageText("FiraSans", PyStr("sfdefault")),
       UsePackageText("unicode-math", PyStr("mathrm=sym")),
       "\\setmathfont{Fira Math}[math-style=ISO,"
       \o "bold-style=ISO,nabla=upright,partial=upright]" >>

\* StrOrIterableStr_normalise; the argument is a PyStr or a PyList of PyStr
StrOrIterableStrNormalise(item) ==
    IF item.t = "str" THEN item.s
    ELSE Join([i \in 1..Len(item.l) |-> item.l[i].s], ",")

\* the Raw element Scope.tikzset appends
TikzsetEl(opt) == ElRaw("\\tikzset{" \o ToCode(Normalise(opt), TRUE) \o "}")

\* the Raw element Scope.style appends
StyleEl(name, opt) ==
    ElRaw("\\tikzset{" \o name \o "/.style={" \o ToCode(Normalise(opt), TRUE) \o "}}")

\* the Raw element Scope.definecolor appends; colorspec is a PyStr or a PyList
DefinecolorEl(name, colormodel, colorspec) ==
    ElRaw("\\definecolor" \o "{" \o name \o "}{" \o colormodel \o "}{"
          \o StrOrIterableStrNormalise(colorspec) \o "}")

\* the Raw element Scope.colorlet appends
ColorletEl(name, colorexpr) ==
    ElRaw("\\colorlet" \o "{" \o name \o "}{" \o colorexpr \o "}")

(***************************************************************************)
(* picture.py: the file system, the external compiler and _update.         *)
(***************************************************************************)
Unset == [set |-> FALSE, s |-> ""]

SetTo(x) == [set |-> TRUE, s |-> x]

\* os.path.isfile
IsFile(fs, name) == \E f \in fs : f.name = name

ContentOf(fs, name) == (CHOOSE f \in fs : f.name = name).content

\* open(name, "w").write(content), shutil.copyfile, pix.save
WriteFile(fs, name, content) ==
    {f \in fs : f.name # name} \cup {[name |-> name, content |-> content]}

\* os.rename(src, dst), src existing: dst is replaced
Rename(fs, src, dst) ==
    {f \in fs : f.name # src /\ f.name # dst}
    \cup {[name |-> dst, content |-> ContentOf(fs, src)]}

\* what one run of the external compiler can do: its exit status, what it
\* printed, and whether it left a tikz-figure0.pdf behind
Runs ==
    {[returncode |-> 0, stdout |-> "Output written on tikz-figure0.pdf", stderr |-> "",
      pdf |-> TRUE],
     [returncode |-> 0, stdout |-> "No pages of output.", stderr |-> "", pdf |-> FALSE],
     [returncode |-> 1, stdout |-> "This is XeTeX\n! Undefined control sequence.",
      stderr |-> "", pdf |-> FALSE],
     [returncode |-> 1, stdout |-> "Emergency stop", stderr |-> "kpathsea: warning",
      pdf |-> TRUE]}

NoCompleted == [set |-> FALSE, returncode |-> 0, stdout |-> "", stderr |-> ""]

Completed(run) ==
    [set |-> TRUE, returncode |-> run.returncode, stdout |-> run.stdout,
     stderr |-> run.stderr]

TempTex == tempdir.path \o "/" \o "tikz.tex"

FigurePdf == tempdir.path \o "/" \o "tikz-figure0.pdf"

\* the mutant of the artifact's name that embeds no digest
TempPdfPlain(doc) == tempdir.path \o "/" \o "tikz-figure.pdf"

\* _update: self.tempdir + sep + "tikz-" + hash + ".pdf"
TempPdfOf(doc) == tempdir.path \o "/" \o "tikz-" \o Sha1(doc) \o ".pdf"

\* the mutant of the cache test that forgets the cache flag
SkipBuildIfFile(c, isfile) == isfile

\* the mutant of the cache test that takes a request made before for a file
SkipBuildIfTried(c, isfile) == c /\ (isfile \/ temp_pdf.set)

\* _update: `if self.cache and os.path.isfile(self.temp_pdf): return`
SkipBuild(c, isfile) == c /\ isfile

\* the mutant of the exit-status test that lets a failed run through
RunFailedNever(run) == FALSE

\* _update: `if completed.returncode != 0`
RunFailed(run) == run.returncode # 0

\* the mutant of _update that keeps the texts it computed first
UpdateTextsStale(scs, pre, docs) ==
    IF self_code.set
    THEN [code |-> self_code.s, doc |-> self_document_code.s]
    ELSE [code |-> PictureCode(scs),
          doc |-> DocumentCodeOf(PictureCode(scs), pre, docs)]

\* _update: the two texts, computed from the lists as they are now
UpdateTexts(scs, pre, docs) ==
    [code |-> PictureCode(scs), doc |-> DocumentCodeOf(PictureCode(scs), pre, docs)]

\* the mutant of _update that goes on to build whatever `build` is
UpdateAlwaysBuilds(texts, build, run) ==
    LET doc == texts.doc
        pdf == TempPdfOf(doc)
        base == [self_code |-> SetTo(texts.code), self_document_code |-> SetTo(doc),
                 temp_pdf |-> temp_pdf, latex_completed |-> latex_completed,
                 files |-> files, raised |-> "", msg |-> "", compiled |-> FALSE,
                 text |-> doc]
        written == WriteFile(files, TempTex, doc \o "\n")
        ran == IF run.pdf
               THEN WriteFile(written, FigurePdf,
                              IF run.returncode = 0 THEN doc ELSE "partial")
               ELSE written
        built == [base EXCEPT !.temp_pdf = SetTo(pdf),
                              !.latex_completed = Completed(run),
                              !.files = ran, !.compiled = TRUE]
    IN  IF SkipBuild(cache, IsFile(files, pdf))
        THEN [base EXCEPT !.temp_pdf = SetTo(pdf)]
        ELSE IF RunFailed(run)
        THEN [built EXCEPT !.raised = "LatexError",
                           !.msg = "LaTeX has failed\n" \o run.stdout]
        ELSE IF ~IsFile(ran, FigurePdf)
        THEN [built EXCEPT !.raised = "FileNotFoundError", !.msg = FigurePdf]
        ELSE [built EXCEPT !.files = Rename(ran, FigurePdf, pdf)]

\* Picture._update(build), the external compiler doing `run` if it is invoked
\* and `texts` being the two texts it computes first: the new values of what
\* _update assigns, and how it ended
Update(texts, build, run) ==
    LET doc == texts.doc
        pdf == TempPdfOf(doc)
        base == [self_code |-> SetTo(texts.code), self_document_code |-> SetTo(doc),
                 temp_pdf |-> temp_pdf, latex_completed |-> latex_completed,
                 files |-> files, raised |-> "", msg |-> "", compiled |-> FALSE,
                 text |-> doc]
        written == WriteFile(files, TempTex, doc \o "\n")
        ran == IF run.pdf
               THEN WriteFile(written, FigurePdf,
                              IF run.returncode = 0 THEN doc ELSE "partial")
               ELSE written
        built == [base EXCEPT !.temp_pdf = SetTo(pdf),
                              !.latex_completed = Completed(run),
                              !.files = ran, !.compiled = TRUE]
    IN  IF ~build THEN base
        ELSE IF SkipBuild(cache, IsFile(files, pdf))
        THEN [base EXCEPT !.temp_pdf = SetTo(pdf)]
        ELSE IF RunFailed(run)
        THEN [built EXCEPT !.raised = "LatexError",
                           !.msg = "LaTeX has failed\n" \o run.stdout]
        ELSE IF ~IsFile(ran, FigurePdf)
        THEN [built EXCEPT !.raised = "FileNotFoundError", !.msg = FigurePdf]
        ELSE [built EXCEPT !.files = Rename(ran, FigurePdf, pdf)]

\* a value a public method returns
Val(t, v) == [t |-> t, v |-> v]

\* the result of a call that may raise
Returned(val, printed) == [raised |-> "", msg |-> "", val |-> val, printed |-> printed]

Raised(exc, msg) == [raised |-> exc, msg |-> msg, val |-> Val("None", ""), printed |-> << >>]

\* Picture._get_PNG / _get_SVG: fitz.open(self.temp_pdf) and the conversion
GetImage(kind, tp, fs) ==
    IF ~tp.set THEN Raised("AttributeError", "temp_pdf")
    ELSE IF ~IsFile(fs, tp.s) THEN Raised("FileNotFoundError", tp.s)
    ELSE Returned(Val(kind, ContentOf(fs, tp.s)), << >>)

\* Picture.safe_get_png: only a LatexError out of _get_PNG is caught
SafeGetPngOf(tp, fs) ==
    LET r == GetImage("png", tp, fs)
        at == Find(r.msg, "! ")
        message == IF at # -1 THEN From(r.msg, at) ELSE r.msg
    IN  IF r.raised = "LatexError"
        THEN Returned(Val("None", ""), << "LatexError: LaTeX has failed", message >>)
        ELSE r

\* os.path.splitext(filename)[1]
RECURSIVE RFindFrom(_, _, _)
RFindFrom(s, c, i) ==
    IF i = 0 THEN 0 ELSE IF Char(s, i) = c THEN i ELSE RFindFrom(s, c, i - 1)

SplitExt(filename) ==
    LET sep == RFindFrom(filename, "/", Len(filename))
        dot == RFindFrom(filename, ".", Len(filename))
    IN  IF dot > sep /\ \E i \in (sep + 1)..(dot - 1) : Char(filename, i) # "."
        THEN SubSeq(filename, dot, Len(filename))
        ELSE ""

\* the mutant of write_image's extension test that compares the text as given
ExtIsExact(ext, want) == ext = want

\* write_image: `ext.lower() == ".pdf"` and its like
ExtIs(ext, want) == Lower(ext) = want

(***************************************************************************)
(* The state after Picture.__init__.                                       *)
(***************************************************************************)
\* no file written / the file a call wrote outside the working directory
NoFile == [name |-> "", content |-> ""]

NoCall == [sid |-> 0, name |-> "", args |-> << >>, opt |-> LikeOther(PyNone),
           bad |-> CoNone]

NoRet ==
    [op |-> "init", raised |-> "", msg |-> "", val |-> Val("None", ""),
     printed |-> << >>, built |-> FALSE, compiled |-> FALSE, again |-> FALSE,
     after_ok |-> FALSE, after |-> "", after_had |-> FALSE, renewed |-> FALSE,
     filename |-> "", wrote |-> NoFile, call |-> NoCall]

NoBuild == [set |-> FALSE, text |-> "", ok |-> FALSE, raised |-> "", had |-> FALSE]

NoRun == [returncode |-> 0, stdout |-> "", stderr |-> "", pdf |-> FALSE]

\* the mutant of the tempdir branch that registers no removal
TempdirUnregistered(td) ==
    IF td.t = "None"
    THEN [path |-> "/tmp/tikz-k3x", given |-> FALSE, made |-> TRUE, atexit |-> FALSE]
    ELSE [path |-> td.s, given |-> TRUE, made |-> FALSE, atexit |-> FALSE]

\* Picture.__init__, "create temporary directory for pdflatex etc.": the path,
\* whether the caller gave it, whether mkdtemp made the directory and whether
\* shutil.rmtree of it is registered with atexit
Tempdir(td) ==
    IF td.t = "None"
    THEN [path |-> "/tmp/tikz-k3x", given |-> FALSE, made |-> TRUE, atexit |-> TRUE]
    ELSE [path |-> td.s, given |-> TRUE, made |-> FALSE, atexit |-> FALSE]

\* Picture(usetikzlibrary=utl, tikzset=tks, tempdir=td, cache=c, opt=opt);
\* utl, tks and td are PyNone when not given
PictureFields(utl, tks, td, c, opt) ==
    /\ o_self = NoOpts
    /\ o_cache = EmptyCache
    /\ o_ret = NoOptRet
    /\ scopes = << [opt |-> Normalise(opt),
                    elements |-> IF tks.t = "None" THEN << >>
                                 ELSE << TikzsetEl(LikeOther(PyStr(
                                             StrOrIterableStrNormalise(tks)))) >>] >>
    /\ preamble = IF utl.t = "None" THEN << >>
                  ELSE AddPreambleTo(<< >>,
                           UseTikzLibraryText(StrOrIterableStrNormalise(utl)))
    /\ document_codes = << >>
    /\ cache = c
    /\ tempdir = Tempdir(td)
    /\ self_code = Unset
    /\ self_document_code = Unset
    /\ temp_pdf = Unset
    /\ latex_completed = NoCompleted
    /\ files = {}
    /\ ret = NoRet
    /\ hist = [last |-> NoBuild,
               calls |-> IF utl.t = "None" THEN << >>
                         ELSE << UseTikzLibraryText(StrOrIterableStrNormalise(utl)) >>]

\* a Picture, beside normalisers that are not called
PictureInit(utl, tks, td, c, opt) ==
    /\ PictureFields(utl, tks, td, c, opt)
    /\ n_in = CoNone
    /\ n_out = NoNorm

\* the pictures the build driver is exercised on
Init ==
    \E td \in {PyNone, PyStr("/work")}, c \in BOOLEAN :
        PictureInit(PyNone, PyNone, td, c, LikeOther(PyNone))

\* the pictures the builders and the renderer are exercised on
InitRender == PictureInit(PyNone, PyNone, PyNone, TRUE, LikeOther(PyNone))

\* the pictures the preamble and the document text are exercised on
InitDocument ==
    \E a \in {<< PyNone, PyNone, LikeOther(PyNone) >>,
               << PyList(<< PyStr("arrows"), PyStr("calc") >>), PyStr("thick"),
                  LikeOther(PyNone) >>,
               << PyNone, PyNone, LikeDict(<< [k |-> "scale", v |-> VInt(2)] >>) >>} :
        PictureInit(a[1], a[2], PyNone, TRUE, a[3])

\* the option model is exercised beside one untouched picture
InitOpts == PictureInit(PyNone, PyNone, PyNone, TRUE, LikeOther(PyNone))

(***************************************************************************)
(* The public calls.  ret describes the last call: what it returned or     *)
(* raised, what it printed and wrote, whether it was a build request       *)
(* (built), whether that request invoked the compiler (compiled), whether  *)
(* the build request before it was for the same document text (again) and  *)
(* whether that earlier request returned normally (after_ok), what it      *)
(* raised (after) and whether the artifact of its text was there before it *)
(* (after_had).                                                            *)
(***************************************************************************)
\* what _update assigned, written back to the Picture
Commit(u, fs) ==
    /\ self_code' = u.self_code
    /\ self_document_code' = u.self_document_code
    /\ temp_pdf' = u.temp_pdf
    /\ latex_completed' = u.latex_completed
    /\ files' = fs

\* a build request (_update with build=True) enters the history
NoteBuild(u) ==
    hist' = [hist EXCEPT !.last = [set |-> TRUE, text |-> u.text, ok |-> u.raised = "",
                                   raised |-> u.raised,
                                   had |-> IsFile(files, TempPdfOf(u.text))]]

RetOf(op, r) ==
    [NoRet EXCEPT !.op = op, !.raised = r.raised, !.msg = r.msg, !.val = r.val,
                  !.printed = r.printed]

\* the outcome of a call that issues a build request, u being what _update did
RetBuilt(op, u, r) ==
    [RetOf(op, r) EXCEPT !.built = TRUE, !.compiled = u.compiled,
                         !.again = hist.last.set /\ hist.last.text = u.text,
                         !.after_ok = hist.last.set /\ hist.last.ok,
                         !.after = hist.last.raised,
                         !.after_had = hist.last.had]

\* the outcome of a builder call: what it was called with, and how it ended
RetCall(op, r, call) ==
    [RetOf(op, r) EXCEPT !.call = call]

\* Picture.code()
Code ==
    \E texts \in {UpdateTexts(scopes, preamble, document_codes)} :
    \E u \in {Update(texts, FALSE, NoRun)} :
        /\ Commit(u, u.files)
        /\ ret' = [RetOf("code", Returned(Val("str", u.self_code.s), << >>))
                   EXCEPT !.renewed = self_code.set /\ self_code.s # u.self_code.s]
        /\ UNCHANGED << optVars, scopes, preamble, document_codes, cache, tempdir, hist >>

\* Picture.document_code()
DocumentCode ==
    \E texts \in {UpdateTexts(scopes, preamble, document_codes)} :
    \E u \in {Update(texts, FALSE, NoRun)} :
        /\ Commit(u, u.files)
        /\ ret' = [RetOf("document_code",
                         Returned(Val("str", u.self_document_code.s), << >>))
                   EXCEPT !.renewed = self_document_code.set
                                      /\ self_document_code.s # u.self_document_code.s]
        /\ UNCHANGED << optVars, scopes, preamble, document_codes, cache, tempdir, hist >>

WriteNames == {"fig.pdf", "fig.PNG", "fig.svg", "fig.bmp", "out.d/fig"}

\* Picture.write_image(filename)
WriteImage ==
    \E texts \in {UpdateTexts(scopes, preamble, document_codes)} :
    \E filename \in WriteNames, run \in Runs :
        \E u \in {Update(texts, TRUE, run)} :
        LET ext == SplitExt(filename)
            kind == CASE ExtIs(ext, ".pdf") -> "pdf"
                      [] ExtIs(ext, ".png") -> "png"
                      [] ExtIs(ext, ".svg") -> "svg"
                      [] OTHER -> ""
            \* shutil.copyfile, fitz.open and _get_SVG read self.temp_pdf
            img == GetImage(kind, u.temp_pdf, u.files)
            r == IF u.raised # "" THEN Raised(u.raised, u.msg)
                 ELSE IF kind = ""
                 THEN Raised("ValueError", "format " \o From(ext, 1) \o " is not supported")
                 ELSE IF img.raised # "" THEN img
                 ELSE Returned(Val("None", ""), << >>)
            wrote == IF r.raised # "" THEN NoFile
                     ELSE [name |-> filename,
                           content |-> IF kind = "pdf" THEN img.val.v
                                       ELSE kind \o ":" \o img.val.v]
        IN  /\ Commit(u, u.files)
            /\ NoteBuild(u)
            /\ ret' = [RetBuilt("write_image", u, r)
                         EXCEPT !.filename = filename, !.wrote = wrote]
            /\ UNCHANGED << optVars, scopes, preamble, document_codes, cache, tempdir >>

\* Picture._repr_mimebundle_(include, exclude)
ReprMimebundle ==
    \E texts \in {UpdateTexts(scopes, preamble, document_codes)} :
    \E run \in Runs :
        \E u \in {Update(texts, TRUE, run)} :
        LET png == GetImage("png", u.temp_pdf, u.files)
            svg == GetImage("svg", u.temp_pdf, u.files)
            r == IF u.raised # "" THEN Raised(u.raised, u.msg)
                 ELSE IF png.raised # "" THEN png
                 ELSE IF svg.raised # "" THEN svg
                 ELSE Returned(Val("bundle", png.val.v), << >>)
        IN  /\ Commit(u, u.files)
            /\ NoteBuild(u)
            /\ ret' = RetBuilt("_repr_mimebundle_", u, r)
            /\ UNCHANGED << optVars, scopes, preamble, document_codes, cache, tempdir >>

\* Picture.safe_get_png(dpi)
SafeGetPng ==
    /\ ret' = RetOf("safe_get_png", SafeGetPngOf(temp_pdf, files))
    /\ UNCHANGED << optVars, scopes, preamble, document_codes, cache, tempdir, hist,
                 self_code, self_document_code, temp_pdf, latex_completed, files >>

\* Picture.show(dpi)
Show ==
    \E texts \in {UpdateTexts(scopes, preamble, document_codes)} :
    \E run \in Runs :
        \E u \in {Update(texts, TRUE, run)} :
        LET png == SafeGetPngOf(u.temp_pdf, u.files)
            r == IF u.raised # "" THEN Raised(u.raised, u.msg)
                 ELSE IF png.raised # "" THEN png
                 ELSE Returned(Val("Image", png.val.v), png.printed)
        IN  /\ Commit(u, u.files)
            /\ NoteBuild(u)
            /\ ret' = RetBuilt("show", u, r)
            /\ UNCHANGED << optVars, scopes, preamble, document_codes, cache, tempdir >>

\* Picture.demo(dpi)
Demo ==
    \E texts \in {UpdateTexts(scopes, preamble, document_codes)} :
    \E run \in Runs :
        \E u \in {Update(texts, TRUE, run)} :
        LET png == SafeGetPngOf(u.temp_pdf, u.files)
            png_base64 == IF png.val.t = "None" THEN "" ELSE png.val.v
            r == IF u.raised # "" THEN Raised(u.raised, u.msg)
                 ELSE IF png.raised # "" THEN png
                 ELSE Returned(Val("HTML", png_base64), png.printed)
        IN  /\ Commit(u, u.files)
            /\ NoteBuild(u)
            /\ ret' = RetBuilt("demo", u, r)
            /\ UNCHANGED << optVars, scopes, preamble, document_codes, cache, tempdir >>

(***************************************************************************)
(* The builder calls of Scope, on any scope of the heap.                   *)
(***************************************************************************)
buildVars == << self_code, self_document_code, temp_pdf, latex_completed, files >>

\* room for one more element
Room == CountEls(scopes, 1) < MaxElems

Sids == 1..Len(scopes)

\* The first builder call on a picture is drawn from all the inputs below;
\* a call on a picture that already holds elements from the plain ones.
First == CountEls(scopes, 1) = 0
Early == CountEls(scopes, 1) <= 1

\* Scope.raw(string)
ScopeRaw(strings, limit) ==
    \E sid \in Sids, string \in strings :
        /\ CountEls(scopes, 1) < limit
        /\ scopes' = AppendEl(scopes, sid, ElRaw(string))
        /\ ret' = RetCall("raw", Returned(Val("None", ""), << >>),
                          [NoCall EXCEPT !.sid = sid, !.name = string])
        /\ UNCHANGED << optVars, preamble, document_codes, cache, tempdir, hist, buildVars >>

P00 == CoTuple(<< Whole(0), Whole(0) >>)

P11 == CoTuple(<< Whole(1), Whole(1) >>)

\* (1.0, 2.5, -0.5)
P3 == CoTuple(<< Whole(1), NumC(2500000), NumC(-500000) >>)

\* the path specifications the path actions are called with
Specs ==
    {<< ArgOp("line", CoList(<< P00, P11 >>), "--") >>,
     << ArgOp("line", CoList(<< P00, P11, CoStr("cycle") >>), "--") >>,
     << ArgOp("line", CoList(<< P3, CoTuple(<< StrC("2cm"), Whole(0), Whole(0) >>),
                                CoArray(<< Whole(100), NumC(4), Whole(0) >>) >>), "-|") >>,
     << ArgOp("line", P11, "--") >>,
     << ArgOp("line", CoList(<< >>), "--") >>,
     << ArgCoords(P00), ArgOp("lineto", CoList(<< P11, CoStr("+(1,0)") >>), "|-"),
        ArgStr("-- cycle") >>,
     << ArgCoords(CoTuple(<< Whole(0) >>)) >>,
     << ArgOp("line", CoList(<< P00, CoStr("north") >>), "--") >>}

ActionOpts ==
    {LikeOther(PyNone),
     LikeDict(<< [k |-> "line_width", v |-> VStr("2pt")], [k |-> "dashed", v |-> VBool(TRUE)] >>),
     LikeOther(PyList(<< PyStr("thick"), PyStr("->") >>))}

\* the methods of Scope that append Action(<their name>, *spec, opt=...)
ActionNames ==
    {"path", "draw", "fill", "filldraw", "pattern", "shade", "shadedraw", "clip",
     "useasboundingbox"}

ActionCalls ==
    [name : {"draw"}, args : Specs, opt : {LikeOther(PyNone)}]
    \cup [name : {"draw"}, args : {<< ArgOp("line", CoList(<< P00, P11 >>), "--") >>},
          opt : ActionOpts]
    \cup [name : ActionNames, args : {<< ArgCoords(P00), ArgStr("rectangle"),
                                         ArgCoords(P11) >>},
          opt : {LikeOther(PyNone)}]

PlainCalls ==
    [name : {"draw"},
     args : {<< ArgOp("line", CoList(<< P00, P11 >>), "--") >>,
             << ArgCoords(CoTuple(<< Whole(0) >>)) >>},
     opt : {LikeOther(PyNone)}]

\* the mutant of self._append(Action(...)) that appends the Action with the
\* operations that were built when one of them is refused
AppendActionPartial(scs, id, action_name, ops, opt) ==
    LET built == SelectSeq(ops, LAMBDA o : o.ok)
    IN  AppendEl(scs, id, ElAction(action_name, [i \in 1..Len(built) |-> built[i].val],
                                   opt))

\* self._append(Action(action_name, *spec, opt=opt)): the Action is
\* constructed before _append is called, so a TypeError raised while its
\* operations are made leaves self.elements alone
AppendAction(scs, id, action_name, ops, opt) ==
    IF \E i \in 1..Len(ops) : ~ops[i].ok THEN scs
    ELSE AppendEl(scs, id, ElAction(action_name, [i \in 1..Len(ops) |-> ops[i].val],
                                    opt))

\* Scope.path / draw / fill / filldraw / pattern / shade / shadedraw / clip /
\* useasboundingbox (*spec, opt=opt)
ScopeAction ==
    \E sid \in Sids, c \in IF First THEN ActionCalls ELSE PlainCalls :
        LET ops == [i \in 1..Len(c.args) |-> Operation(c.args[i])]
            failed == {i \in 1..Len(ops) : ~ops[i].ok}
            \* the caller constructs the Operation arguments before Action.__init__
            \* passes the others through _operation
            built == {i \in failed : c.args[i].a = "op"}
            first == IF built # {} THEN built ELSE failed
            call == [sid |-> sid, name |-> c.name, args |-> c.args, opt |-> c.opt,
                     bad |-> IF failed = {} THEN CoNone
                             ELSE ops[CHOOSE i \in first : \A j \in first : i <= j].bad]
        IN  /\ Room
            /\ scopes' = AppendAction(scopes, sid, c.name, ops, c.opt)
            /\ ret' = RetCall(c.name,
                              IF failed # {} THEN Raised("TypeError", "not a coordinate")
                              ELSE Returned(Val("None", ""), << >>), call)
            /\ UNCHANGED << optVars, preamble, document_codes, cache, tempdir, hist,
                            buildVars >>

\* Scope.node(contents, name=name, at=at)
ScopeNode ==
    \E sid \in Sids, name \in IF First THEN {PyNone, PyStr("n1")} ELSE {PyNone},
       at \in IF First THEN {CoNone, P11, CoStr("1,1")} ELSE {P11} :
        LET op == NodeOperation("node", "$x$", name, at, TRUE)
            call == [sid |-> sid, name |-> "node", args |-> << at >>,
                     opt |-> LikeOther(name), bad |-> op.bad]
        IN  /\ Room
            /\ Early
            /\ scopes' = AppendAction(scopes, sid, "node", << op >>, LikeOther(PyNone))
            /\ ret' = RetCall("node",
                              IF ~op.ok THEN Raised("TypeError", "not a coordinate")
                              ELSE Returned(Val("None", ""), << >>), call)
            /\ UNCHANGED << optVars, preamble, document_codes, cache, tempdir, hist,
                            buildVars >>

\* Scope.coordinate(name, at=at)
ScopeCoordinate ==
    \E sid \in Sids, at \in IF First THEN {CoNone, P00, CoList(<< P00 >>)} ELSE {P00} :
        LET op == NodeOperation("coordinate", "", PyStr("c1"), at, TRUE)
            call == [sid |-> sid, name |-> "coordinate", args |-> << at >>,
                     opt |-> LikeOther(PyStr("c1")), bad |-> op.bad]
        IN  /\ Room
            /\ Early
            /\ scopes' = AppendAction(scopes, sid, "coordinate", << op >>,
                                      LikeOther(PyNone))
            /\ ret' = RetCall("coordinate",
                              IF ~op.ok THEN Raised("TypeError", "not a coordinate")
                              ELSE Returned(Val("None", ""), << >>), call)
            /\ UNCHANGED << optVars, preamble, document_codes, cache, tempdir, hist,
                            buildVars >>

\* Scope.scope(opt=opt): the new Scope is appended and returned
ScopeScope ==
    \E sid \in Sids,
       opt \in IF Early
                THEN {LikeOther(PyNone), LikeDict(<< [k |-> "x_shift", v |-> VStr("1cm")] >>)}
                ELSE {LikeOther(PyNone)} :
        /\ Room
        /\ Len(scopes) < MaxScopes
        /\ scopes' = Append(AppendEl(scopes, sid, ElScope(Len(scopes) + 1)), NewScope(opt))
        /\ ret' = RetCall("scope", Returned(Val("Scope", ""), << >>),
                          [NoCall EXCEPT !.sid = sid, !.name = "scope", !.opt = opt])
        /\ UNCHANGED << optVars, preamble, document_codes, cache, tempdir, hist, buildVars >>

\* the builder calls that append one Raw element made from their arguments:
\* Scope.tikzset, Scope.style, Scope.definecolor, Scope.colorlet
AppendsRaw(sid, op, el) ==
    /\ Room
    /\ scopes' = AppendEl(scopes, sid, el)
    /\ ret' = RetCall(op, Returned(Val("None", ""), << >>),
                      [NoCall EXCEPT !.sid = sid, !.name = op])
    /\ UNCHANGED << optVars, preamble, document_codes, cache, tempdir, hist, buildVars >>

ScopeTikzset ==
    \E sid \in Sids,
       opt \in IF First
                THEN {LikeOther(PyStr("thick")),
                      LikeDict(<< [k |-> "draw", v |-> VBool(TRUE)],
                                  [k |-> "color", v |-> VStr("red")] >>)}
                ELSE {LikeOther(PyStr("thick"))} :
        AppendsRaw(sid, "tikzset", TikzsetEl(opt))

ScopeStyle ==
    \E sid \in Sids : Early /\ AppendsRaw(sid, "style", StyleEl("axis", LikeOther(PyStr("->"))))

ScopeDefinecolor ==
    \E sid \in Sids,
       colorspec \in IF First
                      THEN {PyStr("1,0,0"), PyList(<< PyStr("0"), PyStr("0.5"), PyStr("1") >>)}
                      ELSE {PyStr("1,0,0")} :
        Early /\ AppendsRaw(sid, "definecolor", DefinecolorEl("c", "rgb", colorspec))

ScopeColorlet ==
    \E sid \in Sids : Early /\ AppendsRaw(sid, "colorlet", ColorletEl("d", "red!50"))

(***************************************************************************)
(* The preamble and the document-level code of the Picture.                *)
(***************************************************************************)
\* one or more add_preamble calls, in order
AddAll(texts) ==
    LET RECURSIVE Go(_, _)
        Go(pre, i) == IF i > Len(texts) THEN pre ELSE Go(AddPreambleTo(pre, texts[i]), i + 1)
    IN  /\ Len(hist.calls) + Len(texts) <= MaxPreamble
        /\ preamble' = Go(preamble, 1)
        /\ hist' = [hist EXCEPT !.calls = @ \o texts]
        /\ UNCHANGED << optVars, scopes, document_codes, cache, tempdir, buildVars >>

\* Picture.add_preamble(code)
AddPreamble(codes) ==
    \E code \in codes :
        /\ AddAll(<< code >>)
        /\ ret' = RetCall("add_preamble", Returned(Val("None", ""), << >>),
                          [NoCall EXCEPT !.name = code])

\* Picture.usetikzlibrary(name)
UseTikzLibrary(names) ==
    \E name \in names :
        /\ AddAll(<< UseTikzLibraryText(name) >>)
        /\ ret' = RetCall("usetikzlibrary", Returned(Val("None", ""), << >>),
                          [NoCall EXCEPT !.name = UseTikzLibraryText(name)])

\* Picture.usepackage(name, options)
UsePackage ==
    \E name \in {"FiraSans"}, options \in {PyNone, PyStr("sfdefault")} :
        /\ AddAll(<< UsePackageText(name, options) >>)
        /\ ret' = RetCall("usepackage", Returned(Val("None", ""), << >>),
                          [NoCall EXCEPT !.name = UsePackageText(name, options)])

\* Picture.fira()
Fira ==
    /\ AddAll(FiraTexts)
    /\ ret' = RetCall("fira", Returned(Val("None", ""), << >>),
                      [NoCall EXCEPT !.name = FiraTexts[3]])

\* Picture.add_document_code(code)
AddDocumentCode ==
    \E code \in {"\\pagestyle{empty}"} :
        /\ Len(document_codes) < MaxDocCodes
        /\ document_codes' = Append(document_codes, code)
        /\ ret' = RetCall("add_document_code", Returned(Val("None", ""), << >>),
                          [NoCall EXCEPT !.name = code])
        /\ UNCHANGED << optVars, scopes, preamble, cache, tempdir, hist, buildVars >>

(***************************************************************************)
(* The specifications.                                                     *)
(***************************************************************************)
\* the build driver: a Picture that grows and is built, shown and exported
Next ==
    \/ ScopeRaw({"\\fill (0,0) circle (1pt);"}, MaxTexts)
    \/ Code
    \/ DocumentCode
    \/ WriteImage
    \/ ReprMimebundle
    \/ SafeGetPng
    \/ Show
    \/ Demo

Spec == Init /\ [][Next]_vars

\* the builders and the renderer
NextRender ==
    \/ ScopeRaw({"% a"}, MaxElems)
    \/ ScopeAction
    \/ ScopeNode
    \/ ScopeCoordinate
    \/ ScopeScope
    \/ ScopeTikzset
    \/ ScopeStyle
    \/ ScopeDefinecolor
    \/ ScopeColorlet
    \/ Code

SpecRender == InitRender /\ [][NextRender]_vars

\* the preamble, the document-level code and the two texts made of them
NextDocument ==
    \/ AddPreamble({"\\usetikzlibrary{calc}"})
    \/ UseTikzLibrary({"arrows", "calc"})
    \/ UsePackage
    \/ Fira
    \/ AddDocumentCode
    \/ ScopeRaw({"% a"}, MaxTexts)
    \/ Code
    \/ DocumentCode

SpecDocument == InitDocument /\ [][NextDocument]_vars

\* the option model
NextOpts == OptsNew \/ OptsNormalise \/ OptsNormaliseSelf \/ OptsToCode

SpecOpts == InitOpts /\ [][NextOpts]_vars

(***************************************************************************)
(* The normalisers of core.py, called on their own.                        *)
(***************************************************************************)
\* what _coordinate is given.  Comps: 1.0, 2.5 and "2cm".  Nums: 0, 100,
\* 0.000004, -0.000004, 0.015625, 1.234567, -0.5, 2047.5, 10.5, 0.999999,
\* -0.999996: values whose sixth decimal is no tie, and one tie that a float
\* holds exactly
CoordInputs ==
    LET Comps == {Whole(1), NumC(2500000), StrC("2cm")}
        Nums == {0, 100000000, 4, -4, 15625, 1234567, -500000, 2047500000, 10500000,
                 999999, -999996}
    IN  {CoStr(x) : x \in {"(0,0)", "+(1,0)", "++(1,0)", "cycle", "north", "(1,1", ""}}
        \cup {CoTuple(v) : v \in SeqsUpTo(Comps, MaxDim)}
        \cup {CoArray(v) : v \in SeqsUpTo({Whole(1), NumC(2500000)}, MaxDim)}
        \cup {CoTuple(<< NumC(x), NumC(2500000) >>) : x \in Nums}
        \cup {CoArray(<< StrC("a"), StrC("b") >>), CoNone, CoList(<< P00 >>),
              CoTuple(<< StrC("a"), StrC("b") >>),
              CoTuple(<< Whole(1), NumC(2500000), [t |-> "None", s |-> "", n |-> 0] >>)}

\* what _sequence is given: lists of coordinates and of other values, and
\* 2d arrays
SeqInputs ==
    LET SeqItems == {P00, P3, CoArray(<< Whole(1), Whole(1) >>), CoStr("cycle"),
                     CoTuple(<< StrC("2cm"), Whole(0), Whole(0) >>),
                     CoTuple(<< StrC("a"), StrC("b") >>), CoTuple(<< Whole(0) >>)}
    IN
    {CoList(l) : l \in SeqsUpTo(SeqItems, MaxSeq)}
    \cup {CoArray2(<< << Whole(0), Whole(0) >>, << Whole(1), Whole(1) >> >>),
          CoArray2(<< << Whole(0), Whole(0), Whole(1) >> >>),
          CoArray2(<< << Whole(0), Whole(0), Whole(1), Whole(1) >> >>)}

InitCoord ==
    /\ PictureFields(PyNone, PyNone, PyNone, TRUE, LikeOther(PyNone))
    /\ n_in \in CoordInputs \cup SeqInputs
    /\ n_out = NoNorm

normVars == << o_self, o_cache, o_ret, n_in, picVars >>

\* _coordinate(coord)
CallCoordinate ==
    /\ n_out.op = "none"
    /\ \E r \in {Coordinate(n_in)} :
          n_out' = [NoNorm EXCEPT !.op = "_coordinate", !.ok = r.ok, !.val = r.val,
                                 !.bad = r.bad]
    /\ UNCHANGED normVars

\* _coordinate(c) for the c that _coordinate returned
CallCoordinateAgain ==
    /\ n_out.op = "_coordinate"
    /\ n_out.ok
    /\ \E r \in {Coordinate(n_out.val)} :
          n_out' = [NoNorm EXCEPT !.op = "_coordinate again", !.ok = r.ok,
                                 !.val = r.val, !.bad = r.bad, !.first = n_out.val]
    /\ UNCHANGED normVars

\* _coordinate_code(c) for the c that _coordinate returned
CallCoordinateCode ==
    /\ n_out.op = "_coordinate"
    /\ n_out.ok
    /\ n_out' = [n_out EXCEPT !.op = "_coordinate_code",
                              !.text = CoordinateCode(n_out.val)]
    /\ UNCHANGED normVars

\* _sequence(seq)
CallSequence ==
    /\ n_out.op = "none"
    /\ \E r \in {Sequence(n_in)} :
          n_out' = [NoNorm EXCEPT !.op = "_sequence", !.ok = r.ok, !.val = r.val,
                                 !.bad = r.bad]
    /\ UNCHANGED normVars

\* circle.__init__(radius, x_radius, y_radius, at): the attributes of the
\* object, CoNone standing for None
Circle(radius, x_radius, y_radius, at) ==
    LET c == IF at.t = "None" THEN Ok(CoNone) ELSE Coordinate(at)
    IN  [ok |-> c.ok, bad |-> c.bad,
         val |-> [t |-> "circle", opt |-> Normalise(LikeOther(PyNone)),
                  x_radius |-> IF radius.t # "None" THEN radius ELSE x_radius,
                  y_radius |-> IF radius.t # "None" THEN radius ELSE y_radius,
                  at |-> c.val]]

\* arc.__init__(radius, x_radius, y_radius)
Arc(radius, x_radius, y_radius) ==
    [ok |-> TRUE, bad |-> CoNone,
     val |-> [t |-> "arc", opt |-> Normalise(LikeOther(PyNone)),
              x_radius |-> IF radius.t # "None" THEN radius ELSE x_radius,
              y_radius |-> IF radius.t # "None" THEN radius ELSE y_radius]]

\* grid.__init__(coord, step, xstep, ystep)
Grid(coord, step, xstep, ystep) ==
    LET c == Coordinate(coord)
    IN  [ok |-> c.ok, bad |-> c.bad,
         val |-> [t |-> "grid", opt |-> Normalise(LikeOther(PyNone)),
                  coord |-> c.val,
                  xstep |-> IF step.t # "None" THEN step ELSE xstep,
                  ystep |-> IF step.t # "None" THEN step ELSE ystep]]

\* circle._code(trans=None): `kwoptions = self.kwoptions` reads an attribute;
\* what is stored in that dict afterwards is not what get_opt_code renders
CircleCode(self) ==
    IF "kwoptions" \notin DOMAIN self THEN Raised("AttributeError", "kwoptions")
    ELSE Returned(Val("str", "circle" \o GetOptCode(self)), << >>)

\* arc._code(trans=None)
ArcCode(self) ==
    IF "kwoptions" \notin DOMAIN self THEN Raised("AttributeError", "kwoptions")
    ELSE Returned(Val("str", "arc" \o GetOptCode(self)), << >>)

\* grid._code(trans=None)
GridCode(self) ==
    IF "kwoptions" \notin DOMAIN self THEN Raised("AttributeError", "kwoptions")
    ELSE Returned(Val("str", "grid" \o GetOptCode(self) \o " "
                             \o CoordinateCode(self.coord)), << >>)

\* (radius, x_radius, y_radius) as circle and arc are given them, and
\* (step, xstep, ystep) as grid is
Radii ==
    {<< Whole(1), CoNone, CoNone >>,
     << CoNone, Whole(1), Whole(2) >>,
     << CoNone, NumC(2500000), NumC(2500000) >>,
     << Whole(1), Whole(2), Whole(3) >>,
     << CoNone, StrC("2cm"), StrC("1cm") >>}

\* circle(radius=.., x_radius=.., y_radius=.., at=n_in)
CallCircle ==
    /\ n_out.op = "none"
    /\ \E r \in Radii : \E c \in {Circle(r[1], r[2], r[3], n_in)} :
          n_out' = [NoNorm EXCEPT !.op = "circle", !.ok = c.ok, !.val = c.val,
                                 !.bad = c.bad,
                                 !.raised = IF c.ok THEN "" ELSE "TypeError"]
    /\ UNCHANGED normVars

\* arc(radius=.., x_radius=.., y_radius=..), which takes no coordinate
CallArc ==
    /\ n_out.op = "none"
    /\ n_in = CoNone
    /\ \E r \in Radii : \E c \in {Arc(r[1], r[2], r[3])} :
          n_out' = [NoNorm EXCEPT !.op = "arc", !.ok = c.ok, !.val = c.val,
                                 !.bad = c.bad,
                                 !.raised = IF c.ok THEN "" ELSE "TypeError"]
    /\ UNCHANGED normVars

\* grid(n_in, step=.., xstep=.., ystep=..)
CallGrid ==
    /\ n_out.op = "none"
    /\ \E r \in Radii : \E c \in {Grid(n_in, r[1], r[2], r[3])} :
          n_out' = [NoNorm EXCEPT !.op = "grid", !.ok = c.ok, !.val = c.val,
                                 !.bad = c.bad,
                                 !.raised = IF c.ok THEN "" ELSE "TypeError"]
    /\ UNCHANGED normVars

\* op._code() for the circle, arc or grid that was constructed
CallCode ==
    /\ n_out.op \in {"circle", "arc", "grid"}
    /\ n_out.ok
    /\ \E r \in {CASE n_out.op = "circle" -> CircleCode(n_out.val)
                   [] n_out.op = "arc" -> ArcCode(n_out.val)
                   [] n_out.op = "grid" -> GridCode(n_out.val)} :
          n_out' = [n_out EXCEPT !.op = n_out.op \o "._code", !.raised = r.raised,
                                 !.text = r.val.v]
    /\ UNCHANGED normVars

NextCoord ==
    \/ CallCoordinate
    \/ CallCoordinateAgain
    \/ CallCoordinateCode
    \/ CallSequence
    \/ CallCircle
    \/ CallArc
    \/ CallGrid
    \/ CallCode

SpecCoord == InitCoord /\ [][NextCoord]_vars

(***************************************************************************)
(* The option model: what to_code is expected to return.                   *)
(***************************************************************************)
\* the expected text of one key/value pair
C10_Entry(self, kv) ==
    LET key == IF self.underscore_to_space THEN Replace(kv.k, "_", " ") ELSE kv.k
    IN  IF kv.v = VBool(TRUE) THEN key ELSE key \o "=" \o PyStrOf(kv.v)

\* the expected entries of the pairs, in insertion order
C10_Entries(self) ==
    [i \in 1..Len(self.kw_option) |-> C10_Entry(self, self.kw_option[i])]

\* the entries written one after the other, sep before all but the first
RECURSIVE Separated(_, _)
Separated(entries, sep) ==
    IF Len(entries) = 0 THEN ""
    ELSE IF Len(entries) = 1 THEN entries[1]
    ELSE Separated(SubSeq(entries, 1, Len(entries) - 1), sep)
         \o sep \o entries[Len(entries)]

C10_Text(entries) == Separated(entries, ",")

\* what to_code returned, without the enclosing bracket
OptContent ==
    IF ~o_ret.wb /\ Len(o_ret.out) > 0
    THEN SubSeq(o_ret.out, 2, Len(o_ret.out) - 1)
    ELSE o_ret.out

PlainFlags(self) == \A i \in 1..Len(self.options) : self.options[i].t = "str"

\* C9: an option set holding both positional flags and key/value pairs renders
\* the flags first and the pairs after them, and every two adjacent entries of
\* the output, flag or pair, are separated by a comma.
C9_Claim ==
    (/\ o_ret.op = "to_code"
     /\ Len(o_self.options) > 0
     /\ Len(o_self.kw_option) > 0
     /\ PlainFlags(o_self))
        => Split(OptContent, ",")
             = [i \in 1..Len(o_self.options) |-> o_self.options[i].s]
               \o C10_Entries(o_self)

\* C10: in every option set a key whose value is True renders as the bare key,
\* every other key as key=value, and the pairs render in insertion order after
\* whatever the positional flags rendered; {draw: True, color: "red"} renders
\* as draw,color=red.
C10_Theorem ==
    o_ret.op = "to_code"
        => /\ EndsWith(OptContent, C10_Text(C10_Entries(o_self)))
           /\ Len(o_self.options) = 0 => OptContent = C10_Text(C10_Entries(o_self))
           /\ (/\ o_self.options = << >>
               /\ o_self.kw_option = << [k |-> "draw", v |-> VBool(TRUE)],
                                        [k |-> "color", v |-> VStr("red")] >>)
                  => OptContent = "draw,color=red"

C10_Witness ==
    /\ o_ret.op = "to_code"
    /\ o_ret.wb
    /\ o_ret.out = "draw,color=red"
    /\ o_self.kw_option = << [k |-> "draw", v |-> VBool(TRUE)],
                             [k |-> "color", v |-> VStr("red")] >>

(***************************************************************************)
(* The preamble and the two texts.                                         *)
(***************************************************************************)
\* the texts of a sequence of calls, each kept where it occurs first
RECURSIVE C5_FirstInsertions(_)
C5_FirstInsertions(calls) ==
    IF Len(calls) = 0 THEN << >>
    ELSE LET front == SubSeq(calls, 1, Len(calls) - 1)
             last == calls[Len(calls)]
         IN  IF \E j \in 1..Len(front) : front[j] = last
             THEN C5_FirstInsertions(front)
             ELSE Append(C5_FirstInsertions(front), last)

\* C5: after any sequence of add_preamble, usetikzlibrary, usepackage and fira
\* calls, the constructor's included, the preamble holds no text twice and
\* holds the texts in the order of their first insertion; a call whose text is
\* already present changes nothing.
C5_Theorem ==
    /\ \A i, j \in 1..Len(preamble) : i # j => preamble[i] # preamble[j]
    /\ preamble = C5_FirstInsertions(hist.calls)

C5_Witness ==
    /\ ret.op = "usetikzlibrary"
    /\ Len(preamble) >= 2
    /\ \E i \in 1..Len(hist.calls) - 1 : hist.calls[i] = hist.calls[Len(hist.calls)]
    /\ Len(preamble) < Len(hist.calls)

\* C6: the text code() returns is the serialization of the element list as it
\* is when code() returns, and the text document_code() returns is the
\* serialization of the element, preamble and document-code lists as they are
\* then, also when an earlier render request computed another text.
C6_Theorem ==
    /\ ret.op = "code" => ret.val = Val("str", PictureCode(scopes))
    /\ ret.op = "document_code"
          => ret.val = Val("str", DocumentCodeOf(PictureCode(scopes), preamble,
                                                 document_codes))
    /\ (/\ ret.op = "document_code"
        /\ scopes = << NewScope(LikeOther(PyNone)) >>
        /\ preamble = << "\\usetikzlibrary{calc}" >>
        /\ document_codes = << "\\pagestyle{empty}" >>)
          => ret.val.v = "\\documentclass{article}\n\\usepackage{tikz}\n"
                         \o "\\usetikzlibrary{external}\n\\tikzexternalize\n"
                         \o "\\usetikzlibrary{calc}\n\\begin{document}\n"
                         \o "\\pagestyle{empty}\n\\begin{tikzpicture}\n\n"
                         \o "\\end{tikzpicture}\n\\end{document}"

C6_Witness ==
    /\ ret.op = "document_code"
    /\ ret.renewed
    /\ Len(scopes[1].elements) >= 1
    /\ Len(preamble) >= 1
    /\ Len(document_codes) >= 1

(***************************************************************************)
(* The scopes and the path actions.                                        *)
(***************************************************************************)
\* the rendered fragments of the children of a scope, in insertion order
C7_Fragments(scs, id) ==
    [i \in 1..Len(scs[id].elements) |-> ElCode(scs, scs[id].elements[i])]

\* Scope._code of every scope made by Scope.scope is the children's fragments
\* in insertion order, separated by newlines, between \begin{scope}<options>
\* and \end{scope}
C7_Render ==
    /\ \A id \in 2..Len(scopes) :
          ScopeCode(scopes, id)
            = "\\begin{scope}" \o ToCode(scopes[id].opt, FALSE) \o "\n"
              \o Separated(C7_Fragments(scopes, id), "\n") \o "\n\\end{scope}"
    /\ (/\ Len(scopes) = 2
        /\ scopes[2] = [opt |-> Normalise(LikeDict(<< [k |-> "x_shift",
                                                       v |-> VStr("1cm")] >>)),
                        elements |-> << ElRaw("% a"), ElRaw("\\tikzset{thick}") >>])
          => ScopeCode(scopes, 2)
               = "\\begin{scope}[x shift=1cm]\n% a\n\\tikzset{thick}\n\\end{scope}"

\* a step keeps every scope, its options and its elements, and adds at most
\* one element to a scope, after the ones it holds
C7_Step ==
    /\ Len(scopes') >= Len(scopes)
    /\ \A id \in 1..Len(scopes) :
          /\ scopes'[id].opt = scopes[id].opt
          /\ Len(scopes'[id].elements) \in {Len(scopes[id].elements),
                                            Len(scopes[id].elements) + 1}
          /\ SubSeq(scopes'[id].elements, 1, Len(scopes[id].elements))
               = scopes[id].elements

\* C7: a Scope is an append-only ordered container: no builder call removes or
\* reorders an element, and Scope._code is the children's fragments in
\* insertion order, joined by newlines, between \begin{scope}<options> and
\* \end{scope}, <options> being the scope's own serialized option set.
C7_Theorem == [][C7_Step]_vars /\ []C7_Render

C7_Witness ==
    /\ ret.op = "code"
    /\ ret.val.v = "\\begin{tikzpicture}\n\\begin{scope}[x shift=1cm]\n% a\n"
                   \o "\\tikzset{thick}\n\\end{scope}\n\\end{tikzpicture}"

\* the coordinates a line operation is given
C8_Given(arg) == IF arg.coords.t = "list" THEN arg.coords.v ELSE << arg.coords >>

\* the element the last builder call appended
C8_Appended == scopes[ret.call.sid].elements[Len(scopes[ret.call.sid].elements)]

\* C8: a draw action given the two-point line from (0,0) to (1,1) and no
\* options renders exactly \draw (0,0) -- (1,1); an Action given no options
\* writes no option bracket; a line over n coordinates writes the coordinates
\* in order with the line operator between every two of them, n-1 times, and
\* not before the first.
C8_Theorem ==
    /\ (ret.op \in ActionNames /\ ret.raised = "")
          => LET el == C8_Appended
                 text == ElCode(scopes, el)
             IN  /\ ret.call.opt = LikeOther(PyNone)
                       => /\ StartsWith(text, "\\" \o ret.op \o " ")
                          /\ Find(text, "[") = -1
                 /\ (/\ ret.op = "draw"
                     /\ ret.call.opt = LikeOther(PyNone)
                     /\ ret.call.args = << ArgOp("line", CoList(<< P00, P11 >>), "--") >>)
                       => text = "\\draw (0,0) -- (1,1);"
                 /\ \A i \in 1..Len(ret.call.args) :
                       LET arg == ret.call.args[i]
                           given == C8_Given(arg)
                           n == Len(given)
                           toks == Split(OpCode(el.spec[i]), " ")
                       IN  (arg.a = "op" /\ arg.kind = "line" /\ n >= 1)
                             => /\ Len(toks) = 2 * n - 1
                                /\ \A k \in 1..n :
                                      toks[2 * k - 1]
                                        = CoordinateCode(Coordinate(given[k]).val)
                                /\ \A k \in 1..(n - 1) : toks[2 * k] = arg.op
    /\ (/\ ret.op = "code"
        /\ scopes = << [opt |-> Normalise(LikeOther(PyNone)),
                        elements |-> << ElAction("draw",
                                            << Operation(ArgOp("line",
                                                   CoList(<< P00, P11 >>), "--")).val >>,
                                            LikeOther(PyNone)) >>] >>)
          => ret.val.v = "\\begin{tikzpicture}\n\\draw (0,0) -- (1,1);\n\\end{tikzpicture}"

C8_Witness ==
    /\ ret.op = "draw"
    /\ ret.raised = ""
    /\ ret.call.opt = LikeOther(PyNone)
    /\ ret.call.args = << ArgOp("line", CoList(<< P00, P11, CoStr("cycle") >>), "--") >>
    /\ ElCode(scopes, C8_Appended) = "\\draw (0,0) -- (1,1) -- cycle;"

(***************************************************************************)
(* The build driver.                                                       *)
(***************************************************************************)
\* C1, as stated: when the document text is the one of the build request
\* before, a build request with cache=True invokes no compiler; with
\* cache=False every build request invokes the compiler.
C1_Original ==
    /\ (ret.built /\ ret.again /\ cache) => ~ret.compiled
    /\ (ret.built /\ ~cache) => ret.compiled

\* C1: when the document text is the one of the build request before and that
\* request returned normally, a build request with cache=True invokes no
\* compiler; with cache=False every build request invokes the compiler,
\* whether or not the artifact of the text exists.
C1_Theorem ==
    /\ (ret.built /\ ret.again /\ ret.after_ok /\ cache) => ~ret.compiled
    /\ (ret.built /\ ~cache) => ret.compiled

C1_Witness ==
    /\ ret.built
    /\ ret.again
    /\ ret.after_ok
    /\ cache
    /\ ~ret.compiled
    /\ ret.raised = ""
    /\ IsFile(files, temp_pdf.s)

\* a build request in which the compiler exits nonzero ends in a LatexError
\* whose message is "LaTeX has failed" and the captured output of the
\* compiler, and puts no file at the hash-named path
C2_Step ==
    (ret'.built /\ ret'.compiled /\ latex_completed'.returncode # 0)
        => /\ ret'.raised = "LatexError"
           /\ ret'.msg = "LaTeX has failed\n" \o latex_completed'.stdout
           /\ \A f \in files' : f.name = temp_pdf'.s => f \in files

\* C2: whenever the compiler exits with a nonzero return code during a build,
\* _update fails with a LatexError that carries the output captured from the
\* compiler, and no artifact is moved to the hash-named PDF path of the text.
C2_Theorem == [][C2_Step]_vars

C2_Witness ==
    /\ ret.built
    /\ ret.compiled
    /\ latex_completed.returncode # 0
    /\ latex_completed.stderr # ""
    /\ ret.raised = "LatexError"
    /\ ret.msg = "LaTeX has failed\nEmergency stop"
    /\ IsFile(files, FigurePdf)
    /\ ~IsFile(files, temp_pdf.s)

\* C3, as stated: when the compiler fails, show and demo do not raise, the
\* diagnostic is printed, and safe_get_png never raises.
C3_Claim ==
    /\ (ret.op \in {"show", "demo"} /\ ret.compiled /\ latex_completed.returncode # 0)
          => (ret.raised = "" /\ ret.printed # << >>)
    /\ ret.op = "safe_get_png" => ret.raised = ""

\* the destinations whose extension is not supported, and the extension named
C4_Unsupported == {"fig.bmp", "out.d/fig"}

C4_Named(filename) == IF filename = "fig.bmp" THEN "bmp" ELSE ""

\* C4, as stated: write_image to a destination whose extension is not
\* supported fails with a ValueError naming the extension and writes no file.
C4_Original ==
    (ret.op = "write_image" /\ ret.filename \in C4_Unsupported)
        => /\ ret.raised = "ValueError"
           /\ ret.msg = "format " \o C4_Named(ret.filename) \o " is not supported"
           /\ ret.wrote = NoFile

\* C4: write_image to a destination whose extension is not .pdf, .png or .svg,
\* compared case-insensitively, writes no file and fails: with a ValueError
\* naming the extension when the build it starts with returns normally, and
\* with the error of that build otherwise; a supported extension in any case
\* of letters is no format error.
C4_Theorem ==
    ret.op = "write_image"
        => /\ ret.filename \in C4_Unsupported
                => /\ ret.wrote = NoFile
                   /\ hist.last.ok
                         => /\ ret.raised = "ValueError"
                            /\ ret.msg = "format " \o C4_Named(ret.filename)
                                         \o " is not supported"
                   /\ ~hist.last.ok => ret.raised \in {"LatexError", "FileNotFoundError"}
           /\ ret.filename \notin C4_Unsupported => ret.raised # "ValueError"

C4_Witness ==
    /\ ret.op = "write_image"
    /\ ret.filename = "fig.bmp"
    /\ ret.compiled
    /\ ret.raised = "ValueError"
    /\ ret.msg = "format bmp is not supported"
    /\ ret.wrote = NoFile

(***************************************************************************)
(* The option model: brackets.                                             *)
(***************************************************************************)
\* the option sets the empty inputs give: None, "", [], {}, Opts()
C11_EmptySets ==
    {Normalise(LikeOther(PyNone)), Normalise(LikeOther(PyStr(""))),
     Normalise(LikeOther(PyList(<< >>))), Normalise(LikeDict(<< >>)),
     Opts(<< >>, TRUE, << >>), Opts(<< >>, FALSE, << >>)}

\* a flag that holds a text
RECURSIVE C11_HasText(_)
C11_HasText(obj) ==
    IF obj.t = "None" THEN FALSE
    ELSE IF obj.t = "list" THEN \E i \in 1..Len(obj.l) : C11_HasText(obj.l[i])
    ELSE obj.s # ""

C11_NonEmpty(self) ==
    \/ Len(self.kw_option) > 0
    \/ \E i \in 1..Len(self.options) : C11_HasText(self.options[i])

\* C11: for every accepted option input, to_code() of the normalised option
\* set is the empty string when the set is empty and the content in exactly
\* one pair of square brackets when it is not, and to_code(without_bracket=True)
\* is the same content without brackets.
C11_Theorem ==
    /\ (o_cache[FALSE].hit /\ o_cache[TRUE].hit)
          => o_cache[FALSE].out = IF o_cache[TRUE].out = "" THEN ""
                                  ELSE "[" \o o_cache[TRUE].out \o "]"
    /\ o_ret.op = "to_code"
          => /\ o_self \in C11_EmptySets => o_ret.out = ""
             /\ C11_NonEmpty(o_self)
                   => /\ OptContent # ""
                      /\ ~StartsWith(OptContent, "[")
                      /\ ~EndsWith(OptContent, "]")
                      /\ o_ret.out = IF o_ret.wb THEN OptContent
                                     ELSE "[" \o OptContent \o "]"

C11_Witness ==
    /\ o_self = Normalise(LikeOther(PyList(<< PyStr("red"), PyStr("->") >>)))
    /\ o_cache[FALSE].hit
    /\ o_cache[FALSE].out = "[red,->]"
    /\ o_cache[TRUE].hit
    /\ o_cache[TRUE].out = "red,->"

(***************************************************************************)
(* The normalisers.                                                        *)
(***************************************************************************)
\* a string that is a coordinate: parenthesized, after + or ++ or not, or cycle
C12_Token(x) ==
    \/ x = "cycle"
    \/ /\ \E p \in {"(", "+(", "++("} :
              Len(x) >= Len(p) /\ SubSeq(x, 1, Len(p)) = p
       /\ Len(x) >= 1
       /\ SubSeq(x, Len(x), Len(x)) = ")"

\* a numeric point of 2 or 3 components, held as t
C12_Point(x, t) ==
    /\ x.t = t
    /\ Len(x.v) \in {2, 3}
    /\ \A i \in 1..Len(x.v) : x.v[i].t = "num"

\* a 2- or 3-tuple of strings and numbers
C12_Tuple(x) ==
    /\ x.t = "tuple"
    /\ Len(x.v) \in {2, 3}
    /\ \A i \in 1..Len(x.v) : x.v[i].t \in {"str", "num"}

\* the inputs _coordinate is said to accept
C12_Accepted(x) ==
    \/ (x.t = "str" /\ C12_Token(x.s))
    \/ C12_Tuple(x)
    \/ C12_Point(x, "ndarray")

\* C12: _coordinate accepts every input of the accepted shapes, and
\* _coordinate of what it returned succeeds and returns that same value.
C12_Theorem ==
    /\ n_out.op = "_coordinate" => (n_out.ok <=> C12_Accepted(n_in))
    /\ n_out.op = "_coordinate again"
          => /\ C12_Accepted(n_in)
             /\ n_out.ok
             /\ n_out.val = n_out.first

C12_Witness ==
    /\ n_out.op = "_coordinate again"
    /\ n_in = CoTuple(<< StrC("a"), StrC("b") >>)
    /\ n_out.ok
    /\ n_out.first = CoStr("(a,b)")
    /\ n_out.val = CoStr("(a,b)")

\* C13, as stated: every value _coordinate returns is a numeric point of 2 or
\* 3 components or a string that is a coordinate, and nothing else.
C13_Original ==
    (n_out.op = "_coordinate" /\ n_out.ok)
        => \/ C12_Point(n_out.val, "ndarray")
           \/ C12_Point(n_out.val, "tuple")
           \/ (n_out.val.t = "str" /\ C12_Token(n_out.val.s))

\* C13: every value _coordinate returns is a numeric array of 2 or 3
\* components, a string that is a coordinate, or, for a tuple that mixes
\* strings and numbers, that tuple itself; a tuple of numbers only or of
\* strings only is never returned.
C13_Theorem ==
    (n_out.op = "_coordinate" /\ n_out.ok)
        => \/ C12_Point(n_out.val, "ndarray")
           \/ (n_out.val.t = "str" /\ C12_Token(n_out.val.s))
           \/ /\ C12_Tuple(n_out.val)
              /\ n_out.val = n_in
              /\ \E i \in 1..Len(n_in.v) : n_in.v[i].t = "str"
              /\ \E i \in 1..Len(n_in.v) : n_in.v[i].t = "num"

C13_Witness ==
    /\ n_out.op = "_coordinate"
    /\ n_out.ok
    /\ n_in = CoTuple(<< StrC("2cm"), Whole(1), NumC(2500000) >>)
    /\ n_out.val = n_in

\* the values of a sequence argument that are of no accepted shape, in order
C14_Offenders(x) ==
    IF x.t = "list" THEN SelectSeq(x.v, LAMBDA e : ~C12_Accepted(e))
    ELSE IF /\ x.t = "ndarray2"
            /\ \A i \in 1..Len(x.v) :
                  /\ Len(x.v[i]) \in {2, 3}
                  /\ \A j \in 1..Len(x.v[i]) : x.v[i][j].t = "num"
    THEN << >>
    ELSE IF C12_Accepted(x) THEN << >> ELSE << x >>

\* the offending values of a builder call: of its path specification, or of
\* the `at` of a node or a coordinate
C14_CallOffenders(call) ==
    IF call.name \in {"node", "coordinate"}
    THEN {call.args[i] : i \in {j \in 1..Len(call.args) :
                                   /\ call.args[j].t # "None"
                                   /\ ~C12_Accepted(call.args[j])}}
    ELSE UNION {{C14_Offenders(call.args[i].coords)[k] :
                    k \in 1..Len(C14_Offenders(call.args[i].coords))} :
                i \in {j \in 1..Len(call.args) : call.args[j].a # "str"}}

\* a coordinate as normalisation leaves it
C14_Normal(c) ==
    \/ C12_Point(c, "ndarray")
    \/ (c.t = "str" /\ C12_Token(c.s))
    \/ /\ C12_Tuple(c)
       /\ \E i \in 1..Len(c.v) : c.v[i].t = "str"
       /\ \E i \in 1..Len(c.v) : c.v[i].t = "num"

\* an operation that holds normalised coordinates only
C14_Held(op) ==
    CASE op.t = "Raw" -> TRUE
      [] op.t \in {"node", "coordinate"} -> op.at.t = "None" \/ C14_Normal(op.at)
      [] OTHER ->
            \/ op.coords = [t |-> "ndarray", s |-> "", v |-> << >>]
            \/ /\ op.coords.t = "ndarray2"
               /\ \A i \in 1..Len(op.coords.v) :
                     C12_Point([t |-> "ndarray", s |-> "", v |-> op.coords.v[i]], "ndarray")
            \/ /\ op.coords.t = "list"
               /\ \A i \in 1..Len(op.coords.v) : C14_Normal(op.coords.v[i])

C14_Builders ==
    {"path", "draw", "fill", "filldraw", "pattern", "shade", "shadedraw", "clip",
     "useasboundingbox", "node", "coordinate"}

\* C14: a builder call fails with TypeError exactly when one of its coordinate
\* or sequence arguments is of no accepted shape, the error names such a
\* value, and every operation of every Action held by a scope holds only
\* normalised coordinates, so rendering never meets a value that was not
\* checked.
C14_Theorem ==
    /\ ret.op \in C14_Builders
          => /\ ret.raised = "TypeError" <=> C14_CallOffenders(ret.call) # {}
             /\ ret.raised = "TypeError" => ret.call.bad \in C14_CallOffenders(ret.call)
             /\ ret.raised \in {"", "TypeError"}
    /\ \A id \in 1..Len(scopes) : \A k \in 1..Len(scopes[id].elements) :
          scopes[id].elements[k].t = "Action"
             => \A j \in 1..Len(scopes[id].elements[k].spec) :
                   C14_Held(scopes[id].elements[k].spec[j])
    /\ ret.op = "code" => ret.raised = ""

C14_Witness ==
    /\ ret.op = "draw"
    /\ ret.raised = "TypeError"
    /\ ret.call.bad = [t |-> "str", s |-> "north", v |-> << >>]
    /\ \A id \in 1..Len(scopes) : scopes[id].elements = << >>

\* the elements of a list, each normalised
C15_Elements(l) == [i \in 1..Len(l) |-> Coordinate(l[i]).val]

\* every element is a numeric array, and all are of one size
C15_SameSize(vs) ==
    /\ \A i \in 1..Len(vs) : vs[i].t = "ndarray"
    /\ \A i \in 1..Len(vs) : \A j \in 1..Len(vs) : Len(vs[i].v) = Len(vs[j].v)

\* C15, as stated: for every list _sequence accepts, the empty list and the
\* lists of one element included, the result is a 2d array with one row per
\* element when every element normalises to a numeric array of one size, and
\* otherwise the list of the normalised elements in the original order.
C15_Claim ==
    (n_out.op = "_sequence" /\ n_in.t = "list" /\ n_out.ok)
        => IF C15_SameSize(C15_Elements(n_in.v))
           THEN /\ n_out.val.t = "ndarray2"
                /\ Len(n_out.val.v) = Len(n_in.v)
                /\ \A i \in 1..Len(n_in.v) :
                      n_out.val.v[i] = C15_Elements(n_in.v)[i].v
           ELSE /\ n_out.val.t = "list"
                /\ n_out.val.v = C15_Elements(n_in.v)

\* a number of 10^-6 units in 10^-5 units, rounded to the nearest (ties to even)
C16_Rounded(n) ==
    LET a == IF n < 0 THEN -n ELSE n
    IN  IF a % 10 > 5 \/ (a % 10 = 5 /\ (a \div 10) % 2 = 1)
        THEN (a \div 10) + 1 ELSE a \div 10

\* the k decimal digits of frac without the zeros that end them
RECURSIVE C16_Decimals(_, _)
C16_Decimals(frac, k) ==
    IF k = 0 THEN ""
    ELSE IF frac % 10 = 0 THEN C16_Decimals(frac \div 10, k - 1)
    ELSE SubSeq("00000", 1, k - Len(NatStr(frac))) \o NatStr(frac)

\* a numeric component as the claim has it rendered
C16_Text(n) ==
    LET q == C16_Rounded(n)
        decimals == C16_Decimals(q % 100000, 5)
    IN  (IF n < 0 THEN "-" ELSE "") \o NatStr(q \div 100000)
        \o (IF decimals = "" THEN "" ELSE "." \o decimals)

C16_Rendered(p, text) ==
    (n_out.op = "_coordinate_code" /\ n_in = [t |-> "tuple", s |-> "", v |-> p])
        => n_out.text = text

\* C16: a coordinate of numbers renders as its components in parentheses,
\* separated by commas, each in fixed point rounded to 5 decimals, without
\* the zeros that end the decimals and without a point that nothing follows,
\* the integer part kept whole: (1.0, 2.5) gives (1,2.5), 100 gives 100, and
\* a value that rounds to zero gives 0 (after its sign when it is negative).
C16_Theorem ==
    /\ (n_out.op = "_coordinate_code" /\ n_in.t \in {"tuple", "ndarray"})
          => n_out.text
               = "(" \o Join([i \in 1..Len(n_in.v) |->
                                 IF n_in.v[i].t = "str" THEN n_in.v[i].s
                                 ELSE C16_Text(n_in.v[i].n)], ",") \o ")"
    /\ C16_Rendered(<< NumC(1000000), NumC(2500000) >>, "(1,2.5)")
    /\ C16_Rendered(<< NumC(100000000), NumC(2500000) >>, "(100,2.5)")
    /\ C16_Rendered(<< NumC(0), NumC(2500000) >>, "(0,2.5)")
    /\ C16_Rendered(<< NumC(4), NumC(2500000) >>, "(0,2.5)")
    /\ C16_Rendered(<< NumC(-4), NumC(2500000) >>, "(-0,2.5)")
    /\ C16_Rendered(<< NumC(1234567), NumC(2500000) >>, "(1.23457,2.5)")
    /\ C16_Rendered(<< NumC(10500000), NumC(2500000) >>, "(10.5,2.5)")
    /\ C16_Rendered(<< NumC(999999), NumC(2500000) >>, "(1,2.5)")

C16_Witness ==
    /\ n_out.op = "_coordinate_code"
    /\ n_in = [t |-> "tuple", s |-> "", v |-> << NumC(100000000), NumC(2500000) >>]
    /\ n_out.text = "(100,2.5)"

\* a radius or a step as an option value reads
C17_Value(c) == IF c.t = "str" THEN c.s ELSE C16_Text(c.n)

C17_Begins(text, part) ==
    Len(text) >= Len(part) /\ SubSeq(text, 1, Len(part)) = part

C17_Ends(text, part) ==
    Len(text) >= Len(part)
    /\ SubSeq(text, Len(text) - Len(part) + 1, Len(text)) = part

\* the text begins with the symmetric form when the two values are equal, and
\* otherwise holds the two fields and not the symmetric one
C17_Form(text, kind, both, xkey, ykey, x, y) ==
    IF x = y
    THEN C17_Begins(text, kind \o "[" \o both \o "=" \o C17_Value(x))
    ELSE /\ Find(text, xkey \o "=" \o C17_Value(x)) # -1
         /\ Find(text, ykey \o "=" \o C17_Value(y)) # -1
         /\ ~C17_Begins(text, kind \o "[" \o both \o "=")

\* C17, as stated: rendered without a transform, a circle, an arc and a grid
\* give the symmetric form (circle[radius=R], grid[step=S] (coord)) when the
\* two stored values are equal and the two separate fields when they are not.
C17_Claim ==
    /\ n_out.op = "circle._code"
          => /\ n_out.raised = ""
             /\ C17_Form(n_out.text, "circle", "radius", "x_radius", "y_radius",
                         n_out.val.x_radius, n_out.val.y_radius)
    /\ n_out.op = "arc._code"
          => /\ n_out.raised = ""
             /\ C17_Form(n_out.text, "arc", "radius", "x_radius", "y_radius",
                         n_out.val.x_radius, n_out.val.y_radius)
    /\ n_out.op = "grid._code"
          => /\ n_out.raised = ""
             /\ C17_Form(n_out.text, "grid", "step", "xstep", "ystep",
                         n_out.val.xstep, n_out.val.ystep)
             /\ C17_Ends(n_out.text, " " \o CoordinateCode(n_out.val.coord))

(***************************************************************************)
(* The working directory and the artifact.                                 *)
(***************************************************************************)
\* C18, as stated: whether the working directory was made for the picture or
\* given by the caller, it is created once for the picture and its removal at
\* the exit of the process is registered.
C18_Original == [](tempdir.made /\ tempdir.atexit) /\ [][tempdir' = tempdir]_vars

\* C18: a picture constructed without tempdir makes its working directory,
\* once, and registers its removal at the exit of the process; a picture
\* given tempdir uses that path as it is, neither making the directory nor
\* registering its removal; either way the picture keeps the one directory.
C18_Theorem ==
    /\ [](IF tempdir.given THEN ~tempdir.made /\ ~tempdir.atexit
                           ELSE tempdir.made /\ tempdir.atexit)
    /\ [][tempdir' = tempdir]_vars

C18_Witness ==
    /\ tempdir.given
    /\ tempdir.path = "/work"
    /\ ~tempdir.made
    /\ ~tempdir.atexit
    /\ ret.built
    /\ ret.compiled
    /\ \E f \in files : f.name = "/work/tikz.tex"

\* the full document text of the picture as it is now
C19_Text ==
    DocumentCodeOf(PictureCode(scopes), preamble, document_codes)

\* the name of the artifact of a document text
C19_Artifact(text) == tempdir.path \o "/tikz-" \o Sha1(text) \o ".pdf"

\* the last call issued a build request, and that request returned normally
C19_Built == ret.built /\ hist.last.set /\ hist.last.ok

\* after a build request that returned normally temp_pdf names an existing
\* file of the working directory, the artifact of the text as it is now
C19_Named ==
    C19_Built
        => /\ temp_pdf.set
           /\ temp_pdf.s = C19_Artifact(C19_Text)
           /\ \E f \in files : f.name = temp_pdf.s
           /\ hist.last.text = C19_Text
           \* and, no failed run having left a file behind, what the compiler
           \* made of that text
           /\ (\A f \in files : f.content # "partial")
                 => \E f \in files : f.name = temp_pdf.s /\ f.content = C19_Text

\* a build request that returns normally for a text other than the one of the
\* build request before leaves temp_pdf naming another file than before
C19_Step ==
    (C19_Built' /\ hist.last.set /\ hist.last.text # hist'.last.text /\ temp_pdf.set)
        => /\ temp_pdf'.s # temp_pdf.s
           /\ temp_pdf'.s # C19_Artifact(hist.last.text)

\* C19: whenever a build request returns normally, temp_pdf names an existing
\* file in the working directory whose name embeds the SHA-1 digest of the
\* document text as it is now, and never the artifact of the different text
\* of an earlier build request.
C19_Theorem == []C19_Named /\ [][C19_Step]_vars

C19_Witness ==
    /\ C19_Built
    /\ ret.compiled
    /\ ~ret.again
    /\ temp_pdf.s = C19_Artifact(C19_Text)
    /\ \E f \in files : f.name = temp_pdf.s /\ f.content = C19_Text
    /\ \E f \in files :
          /\ f.name # temp_pdf.s
          /\ C17_Begins(f.name, tempdir.path \o "/tikz-sha1<")

\* C20: when a build request failed with LatexError and the artifact of its
\* text was not there before it, the next build request, for the same text
\* and with cache=True, invokes the compiler again.
C20_Theorem ==
    (ret.built /\ ret.again /\ ret.after = "LatexError" /\ ~ret.after_had /\ cache)
        => /\ ret.compiled
           /\ latex_completed.set

C20_Witness ==
    /\ ret.built
    /\ ret.again
    /\ ret.after = "LatexError"
    /\ ~ret.after_had
    /\ cache
    /\ ret.compiled
    /\ ret.raised = ""
    /\ \E f \in files : f.name = temp_pdf.s /\ f.content = C19_Text

(***************************************************************************)
(* What code() and document_code() leave alone.                            *)
(***************************************************************************)
\* a call of code() or document_code() leaves the files, temp_pdf, the record
\* of the last compiler run, the elements, the preamble and the document
\* codes as they were, and is no build request
C21_Step ==
    ret'.op \in {"code", "document_code"}
        => /\ files' = files
           /\ temp_pdf' = temp_pdf
           /\ latex_completed' = latex_completed
           /\ scopes' = scopes
           /\ preamble' = preamble
           /\ document_codes' = document_codes
           /\ hist' = hist
           /\ ~ret'.built
           /\ ~ret'.compiled
           /\ ret'.raised = ""

\* C21: code() and document_code() never invoke the compiler, never create
\* or write a file, and leave temp_pdf and the element, preamble and
\* document-code lists unchanged, whether no build was requested yet, the
\* last build succeeded or the last build failed.
C21_Theorem == [][C21_Step]_vars

\* code() or document_code() called after a failed build, with the files of
\* that build in the working directory
C21_Witness ==
    /\ ret.op \in {"code", "document_code"}
    /\ hist.last.set
    /\ hist.last.raised = "LatexError"
    /\ temp_pdf.set
    /\ \A f \in files : f.name # temp_pdf.s
    /\ \E f \in files : f.name = TempTex
    /\ ret.raised = ""

(***************************************************************************)
(* What a refused builder call leaves alone.                               *)
(***************************************************************************)
\* a builder call one of whose arguments is no coordinate and no sequence
\* raises, and the elements of every scope are what they were
C22_Step ==
    (ret'.op \in C14_Builders /\ C14_CallOffenders(ret'.call) # {})
        => /\ ret'.raised = "TypeError"
           /\ scopes' = scopes
           /\ \A id \in 1..Len(scopes) : scopes'[id].elements = scopes[id].elements

\* C22: path, draw, fill, filldraw, pattern, shade, shadedraw, clip,
\* useasboundingbox, node and coordinate, called with an argument that fails
\* the validation of coordinates, raise and leave the element list of the
\* scope as it was: no Action is appended, whole or in part.
C22_Theorem == [][C22_Step]_vars

\* a draw refused on a picture that already holds an element
C22_Witness ==
    /\ ret.op = "draw"
    /\ ret.raised = "TypeError"
    /\ ret.call.bad = [t |-> "tuple", s |-> "", v |-> << NumC(0) >>]
    /\ ret.call.sid = 1
    /\ Len(scopes[1].elements) = 1
    /\ scopes[1].elements[1].t = "Action"

(***************************************************************************)
(* Nested scopes.                                                          *)
(***************************************************************************)
RECURSIVE C23_Block(_, _)
\* the line an element of a scope stands for
C23_Line(scs, el) ==
    IF el.t = "Scope" THEN C23_Block(scs, el.ref)
    ELSE IF el.t = "Raw" THEN el.string
    ELSE ActionCode(el)

\* the lines of the elements a scope holds now, in insertion order
C23_Lines(scs, id) ==
    [k \in 1..Len(scs[id].elements) |-> C23_Line(scs, scs[id].elements[k])]

\* the begin/end block of the nested scope c, around the lines it holds now
C23_Block(scs, c) ==
    "\\begin{scope}" \o ToCode(scs[c].opt, FALSE) \o "\n"
    \o Separated(C23_Lines(scs, c), "\n") \o "\n\\end{scope}"

\* Scope.scope adds one empty scope and appends the reference to it to the
\* parent; every step leaves every element at the position it holds
C23_Step ==
    /\ Len(scopes') >= Len(scopes)
    /\ \A id \in 1..Len(scopes) :
          /\ Len(scopes'[id].elements) >= Len(scopes[id].elements)
          /\ \A k \in 1..Len(scopes[id].elements) :
                scopes'[id].elements[k] = scopes[id].elements[k]
    /\ ret'.op = "scope"
          => /\ Len(scopes') = Len(scopes) + 1
             /\ scopes'[Len(scopes')].elements = << >>
             /\ \A id \in 1..Len(scopes) :
                   scopes'[id].elements
                     = IF id = ret'.call.sid
                       THEN Append(scopes[id].elements, ElScope(Len(scopes')))
                       ELSE scopes[id].elements

\* the rendered code of the picture and of every scope has, at the position of
\* each nested scope, the block around the lines that scope holds now
C23_Rendered ==
    /\ PictureCode(scopes)
         = "\\begin{tikzpicture}" \o ToCode(scopes[1].opt, FALSE) \o "\n"
           \o Separated(C23_Lines(scopes, 1), "\n") \o "\n\\end{tikzpicture}"
    /\ \A id \in 2..Len(scopes) : ScopeCode(scopes, id) = C23_Block(scopes, id)
    /\ (ret.op = "code" /\ ret.raised = "") => ret.val.v = PictureCode(scopes)
    /\ (/\ Len(scopes) = 2
        /\ scopes[1].elements = << ElScope(2), ElRaw("% a") >>
        /\ scopes[2].opt = Normalise(LikeOther(PyNone))
        /\ scopes[2].elements = << ElRaw("% a") >>)
          => PictureCode(scopes)
               = "\\begin{tikzpicture}\n\\begin{scope}\n% a\n\\end{scope}\n% a\n"
                 \o "\\end{tikzpicture}"

\* C23: a nested scope made by Scope.scope() is appended to its parent when it
\* is made and rendered by reference: the elements added to the child later,
\* interleaved in any order with additions to the parent, appear in the
\* rendered code of the parent and of the Picture inside the child's begin/end
\* block, in the child's insertion order, at the position the child was given
\* in the parent when it was made.
C23_Theorem == [][C23_Step]_vars /\ []C23_Rendered

\* the child is made first, the parent is given a comment after it, and then
\* the child is given a line
C23_Witness ==
    /\ Len(scopes) = 2
    /\ ret.op = "draw" /\ ret.raised = "" /\ ret.call.sid = 2
    /\ scopes[1].elements = << ElScope(2), ElRaw("% a") >>
    /\ Len(scopes[2].elements) = 1
    /\ PictureCode(scopes)
         = "\\begin{tikzpicture}\n\\begin{scope}\n\\draw (0,0) -- (1,1);\n"
           \o "\\end{scope}\n% a\n\\end{tikzpicture}"

====
